---- MODULE Spec2Model ----
(***************************************************************************)
(* Evaluation orchestration engine of backend/app/routers/eval.py: the      *)
(* two run-state dictionaries (global and repo-specific mode), their        *)
(* results caches, the start / status / results request handlers and the    *)
(* background matrix walks, cut at their suspension points                   *)
(* (await asyncio.sleep).  Handlers have no await and run atomically.       *)
(***************************************************************************)
EXTENDS Integers, Sequences, FiniteSets, TLC

(* ---------------- bounds of the model ---------------- *)
\* largest item list: size of the global dataset / of a repo request's prs
MaxItems == 1
\* accepted starts per mode in one behaviour
MaxRuns == 2
\* last value of the wall clock (seconds)
MaxTime == 2

(* ---------------- program constants ---------------- *)
\* eval_service.models
Models == <<"sonar", "sonar-pro">>
\* SYSTEM_PROMPTS (the ids)
SYSTEM_PROMPTS == <<"prompt-1", "prompt-2">>
\* capacity of the rolling log buffer
LogCapacity == 100
\* the value of a start_time that was never set (None); the clock starts at 1
None == 0

\* A text is a tuple of one-character strings.  The review of a candidate
\* call that succeeded, and the error-marked string of one that failed
Review_ok == <<"o", "k">>
Review_Error == <<"E", "r", "r", "o", "r">>

\* What the external services answer for one item: the candidate model's
\* review (Review_Error = the error-marked string of a failed call) and the
\* three judges' `detected` flags.  Either the review is produced and judged
\* favourably, or the candidate call fails and every judge answers
\* detected=FALSE (which is also what a failed judge call yields).
ItemOutcomes ==
    { [review |-> Review_ok, critical |-> TRUE, hallucinated |-> FALSE,
       helpful |-> TRUE],
      [review |-> Review_Error, critical |-> FALSE, hallucinated |-> FALSE,
       helpful |-> FALSE] }

VARIABLES
    now,                      \* time.time(), whole seconds
    client,                   \* the mode whose endpoints this behaviour's client drives
    dataset,                  \* eval_service.dataset (loaded once)
    eval_status,              \* global mode RunState
    eval_results_cache,       \* global mode results cache
    global_tasks,             \* run_evaluation_task instances, in scheduling order
    repo_eval_status,         \* repo mode RunState
    repo_eval_results_cache,  \* repo mode results cache
    repo_tasks,               \* run_repo_evaluation_task instances
    response,                 \* the response of the latest request
    service_call,             \* the outcome of the API call a service function awaits
    service_result,           \* what that service function returned
    twin                      \* the compared run: its world, and both runs' answers

vars == <<now, client, dataset, eval_status, eval_results_cache, global_tasks,
          repo_eval_status, repo_eval_results_cache, repo_tasks, response,
          service_call, service_result, twin>>

global_vars == <<eval_status, eval_results_cache, global_tasks>>
repo_vars == <<repo_eval_status, repo_eval_results_cache, repo_tasks>>
service_vars == <<service_call, service_result>>

(* ---------------- helpers ---------------- *)
\* an empty dict
EmptyDict == [k \in {} |-> <<>>]

\* the initial value of eval_status / repo_eval_status
InitialStatus ==
    [running |-> FALSE, progress |-> 0, total |-> 0,
     current_model |-> "", current_prompt |-> "", current_pr |-> 0,
     current_step |-> "", sub_progress |-> 0, sub_total |-> 0,
     start_time |-> None, elapsed_time |-> 0, logs |-> <<>>]

\* variant: the slice keeps the head of the list, logs[:100]
LastN_KeepsOldest(s, n) == IF Len(s) > n THEN SubSeq(s, 1, n) ELSE s

\* logs[-100:] after an append
LastN(s, n) == IF Len(s) > n THEN SubSeq(s, Len(s) - n + 1, Len(s)) ELSE s

\* add_log / add_repo_log on a status dict; run tags the emitting run
add_log(st, run, msg) ==
    [st EXCEPT !.logs = LastN(Append(@, [run |-> run, msg |-> msg]), LogCapacity)]

RECURSIVE add_logs(_, _, _)
add_logs(st, run, msgs) ==
    IF msgs = <<>> THEN st
    ELSE add_logs(add_log(st, run, Head(msgs)), run, Tail(msgs))

\* variant: the elapsed time is refreshed only while the run is running
update_elapsed_time_WhileRunning(st) ==
    IF st.running THEN [st EXCEPT !.elapsed_time = now - st.start_time] ELSE st

\* update_elapsed_time: only when start_time is truthy
update_elapsed_time(st) ==
    IF st.start_time # None THEN [st EXCEPT !.elapsed_time = now - st.start_time] ELSE st

\* variant: the rate is kept as a percentage
Rate_Percent(k, n) == [num |-> 100 * k, den |-> n]

\* a rate k/n as an exact fraction
Rate(k, n) == [num |-> k, den |-> n]
Zero == Rate(0, 1)
One == Rate(1, 1)

\* variant: a hallucination rate of exactly 0.35 is filtered
Passed_StrictHallucination(critical_rate, hallucination_rate) ==
    /\ 2 * critical_rate.num >= critical_rate.den
    /\ 20 * hallucination_rate.num < 7 * hallucination_rate.den

\* critical_rate >= 0.5 and hallucination_rate <= 0.35
Passed(critical_rate, hallucination_rate) ==
    /\ 2 * critical_rate.num >= critical_rate.den
    /\ 20 * hallucination_rate.num <= 7 * hallucination_rate.den

\* the longest review an item's record stores whole, and what follows a
\* cut one
ReviewCap == 500
Ellipsis == <<".", ".", ".">>

\* review[:500] + "..." if len(review) > 500 else review
stored_review(review) ==
    IF Len(review) > ReviewCap THEN SubSeq(review, 1, ReviewCap) \o Ellipsis ELSE review

\* the record the global walk appends for an item (lines 246-255)
G_item_result(pr_id, review, critical_detected, hallucinated, helpful) ==
    [pr_id |-> pr_id, review |-> stored_review(review),
     critical_detected |-> critical_detected, hallucinated |-> hallucinated,
     helpful |-> helpful]

\* the record the repo walk appends for an item (lines 567-573)
R_item_result(pr_id, review, critical_detected, hallucinated, helpful) ==
    [pr_id |-> pr_id, critical_detected |-> critical_detected,
     hallucinated |-> hallucinated, helpful |-> helpful]

\* sum(1 for r in rs if r[field])
RECURSIVE Count(_, _)
Count(rs, field) ==
    IF rs = <<>> THEN 0
    ELSE (IF Head(rs)[field] THEN 1 ELSE 0) + Count(Tail(rs), field)

\* a task that has not been given local state yet / has released it; calls
\* is the history of the external calls the task has made
TaskRecord(pc) ==
    [pc |-> pc, prs |-> <<>>, model_idx |-> 0, prompt_idx |-> 0, pr_idx |-> 0,
     combination_results |-> <<>>, results |-> <<>>, current |-> 0,
     review |-> <<>>, critical_result |-> FALSE, hallucination_result |-> FALSE,
     calls |-> <<>>]

\* the task record after one more external call: which service, for which
\* combination and item, with which review (returned by the candidate model,
\* passed to a judge), and how many results the walk had appended by then
Called(t, service, review) ==
    [t EXCEPT !.calls = Append(@, [service |-> service,
                                   model |-> Models[t.model_idx],
                                   prompt |-> SYSTEM_PROMPTS[t.prompt_idx],
                                   item |-> t.pr_idx,
                                   review |-> review,
                                   appended |-> Len(t.results)])]

Live(t) == t.pc \notin {"done", "failed"}

NoResponse == [op |-> "none", mode |-> "none", status |-> "none",
               total_combinations |-> 0, results |-> <<>>, elapsed_time |-> <<>>]

\* the part of a response the model keeps; results is <<>> where the
\* response has no results or None, elapsed_time is <<>> where the response
\* has no elapsed_time or None and <<seconds>> otherwise
Response(op, mode, status, total) ==
    [op |-> op, mode |-> mode, status |-> status, total_combinations |-> total,
     results |-> <<>>, elapsed_time |-> <<>>]

\* a response whose results field is the cache's result list, when it has one
WithResults(resp, cache) ==
    IF "results" \in DOMAIN cache THEN [resp EXCEPT !.results = cache["results"]]
    ELSE resp

\* a "running" or "complete" response with the elapsed_time of status st
WithElapsed(resp, st) ==
    IF resp.status \in {"running", "complete"}
    THEN [resp EXCEPT !.elapsed_time = <<st.elapsed_time>>]
    ELSE resp

\* no run is being compared
NoTwin == [w |-> <<>>]

(* ---------------- initial state ---------------- *)
Init ==
    /\ now = 1
    /\ client \in {"global", "repo"}
    /\ \E n \in 0..MaxItems : dataset = [i \in 1..n |-> [id |-> i]]
    /\ eval_status = InitialStatus
    /\ eval_results_cache = EmptyDict
    /\ global_tasks = <<>>
    /\ repo_eval_status = InitialStatus
    /\ repo_eval_results_cache = EmptyDict
    /\ repo_tasks = <<>>
    /\ response = NoResponse
    /\ service_call = [op |-> "none"]
    /\ service_result = [op |-> "none"]
    /\ twin = NoTwin

(* ---------------- the clock ---------------- *)
Tick ==
    /\ now < MaxTime
    /\ now' = now + 1
    /\ UNCHANGED <<client, dataset, service_vars, twin, global_vars, repo_vars, response>>

(* ---------------- global mode: start ---------------- *)
\* variant: the guard reads the other mode's flag
GlobalStartRejected_OtherFlag == repo_eval_status.running

\* the rejecting guard of start_global_eval (line 106)
GlobalStartRejected == eval_status.running

\* variant: the log buffer of the previous run is carried over
GlobalFreshStatus_KeepLogs(total, dataset_size) ==
    [running |-> TRUE, progress |-> 0, total |-> total,
     current_model |-> "", current_prompt |-> "", current_pr |-> 0,
     current_step |-> "Initializing...", sub_progress |-> 0,
     sub_total |-> dataset_size, start_time |-> now,
     elapsed_time |-> 0, logs |-> eval_status.logs]

\* the dict assigned to eval_status by an accepted start (lines 112-125)
GlobalFreshStatus(total, dataset_size) ==
    [running |-> TRUE, progress |-> 0, total |-> total,
     current_model |-> "", current_prompt |-> "", current_pr |-> 0,
     current_step |-> "Initializing...", sub_progress |-> 0,
     sub_total |-> dataset_size, start_time |-> now,
     elapsed_time |-> 0, logs |-> <<>>]

\* variant: an accepted start leaves the results cache as it is
start_global_eval_KeepsCache ==
    IF GlobalStartRejected
    THEN /\ response' = Response("start", "global", "conflict", 0)
         /\ UNCHANGED <<now, client, dataset, service_vars, twin, global_vars, repo_vars>>
    ELSE LET total == Len(Models) * Len(SYSTEM_PROMPTS)
             dataset_size == Len(dataset)
             run == Len(global_tasks) + 1
             fresh == GlobalFreshStatus(total, dataset_size)
         IN  /\ Len(global_tasks) < MaxRuns
             /\ eval_status' = add_logs(fresh, run,
                                  <<"Starting", "Models", "Dataset", "Estimated">>)
             /\ eval_results_cache' = eval_results_cache
             /\ global_tasks' = Append(global_tasks, TaskRecord("scheduled"))
             /\ response' = Response("start", "global", "started", total)
             /\ UNCHANGED <<now, client, dataset, service_vars, twin, repo_vars>>

\* POST /eval/global/start (lines 100-135)
start_global_eval ==
    IF GlobalStartRejected
    THEN /\ response' = Response("start", "global", "conflict", 0)
         /\ UNCHANGED <<now, client, dataset, service_vars, twin, global_vars, repo_vars>>
    ELSE LET total == Len(Models) * Len(SYSTEM_PROMPTS)
             dataset_size == Len(dataset)
             run == Len(global_tasks) + 1
             fresh == GlobalFreshStatus(total, dataset_size)
         IN  /\ Len(global_tasks) < MaxRuns
             /\ eval_status' = add_logs(fresh, run,
                                  <<"Starting", "Models", "Dataset", "Estimated">>)
             /\ eval_results_cache' = EmptyDict
             /\ global_tasks' = Append(global_tasks, TaskRecord("scheduled"))
             /\ response' = Response("start", "global", "started", total)
             /\ UNCHANGED <<now, client, dataset, service_vars, twin, repo_vars>>

(* ---------------- global mode: the matrix walk ---------------- *)
\* A walk segment is computed on w = [st, t, cache]: eval_status, the task's
\* local variables and eval_results_cache.  run tags the task's log entries.

\* lines 306-329: final summary, publication, running cleared
G_finalize(w, run) ==
    LET total == Len(Models) * Len(SYSTEM_PROMPTS)
        logged == add_logs(w.st, run, <<"", "=====", "EVALUATION COMPLETE", "=====",
                                        "Passed", "Filtered", "Total time">>)
    IN  [st |-> [logged EXCEPT !.running = FALSE, !.progress = total,
                               !.current_step = "Complete"],
         t |-> TaskRecord("done"),
         cache |-> [k \in DOMAIN w.cache \cup {"results"} |->
                       IF k = "results" THEN w.t.results ELSE w.cache[k]]]

\* variant: current_prompt is written for the first prompt of a model only
G_enter_StalePrompt(w, run, mi, pi) ==
    IF mi > Len(Models) THEN G_finalize(w, run)
    ELSE LET s1 == IF pi = 1
                   THEN add_logs(w.st, run, <<"", "=====", "Model", "=====">>)
                   ELSE w.st
             s2 == [s1 EXCEPT !.current_model = Models[mi],
                              !.current_prompt = IF pi = 1 THEN SYSTEM_PROMPTS[pi] ELSE @,
                              !.current_step = "Starting combination...",
                              !.sub_progress = 0,
                              !.sub_total = Len(dataset)]
         IN  [w EXCEPT !.st = update_elapsed_time(s2),
                       !.t = [w.t EXCEPT !.pc = "at173", !.model_idx = mi,
                                         !.prompt_idx = pi]]

\* loop control arriving at combination (mi, pi): lines 154-173, or the end
G_enter(w, run, mi, pi) ==
    IF mi > Len(Models) THEN G_finalize(w, run)
    ELSE LET s1 == IF pi = 1
                   THEN add_logs(w.st, run, <<"", "=====", "Model", "=====">>)
                   ELSE w.st
             s2 == [s1 EXCEPT !.current_model = Models[mi],
                              !.current_prompt = SYSTEM_PROMPTS[pi],
                              !.current_step = "Starting combination...",
                              !.sub_progress = 0,
                              !.sub_total = Len(dataset)]
         IN  [w EXCEPT !.st = update_elapsed_time(s2),
                       !.t = [w.t EXCEPT !.pc = "at173", !.model_idx = mi,
                                         !.prompt_idx = pi]]

\* variant: progress is given the position in the prompt loop
G_complete_combination_PromptIndex(w, run, result) ==
    LET current == w.t.current + 1
        t1 == [w.t EXCEPT !.results = Append(@, result), !.current = current,
                          !.combination_results = <<>>, !.pr_idx = 0, !.review = <<>>,
                          !.critical_result = FALSE, !.hallucination_result = FALSE]
        s1 == update_elapsed_time([w.st EXCEPT !.progress = w.t.prompt_idx])
        w1 == [w EXCEPT !.st = s1, !.t = t1]
    IN  IF w.t.prompt_idx < Len(SYSTEM_PROMPTS)
        THEN G_enter(w1, run, w.t.model_idx, w.t.prompt_idx + 1)
        ELSE G_enter(w1, run, w.t.model_idx + 1, 1)

\* variant: the loops are nested the other way round, prompts outside
G_complete_combination_PromptMajor(w, run, result) ==
    LET current == w.t.current + 1
        t1 == [w.t EXCEPT !.results = Append(@, result), !.current = current,
                          !.combination_results = <<>>, !.pr_idx = 0, !.review = <<>>,
                          !.critical_result = FALSE, !.hallucination_result = FALSE]
        s1 == update_elapsed_time([w.st EXCEPT !.progress = current])
        w1 == [w EXCEPT !.st = s1, !.t = t1]
    IN  IF w.t.model_idx < Len(Models)
        THEN G_enter(w1, run, w.t.model_idx + 1, w.t.prompt_idx)
        ELSE IF w.t.prompt_idx < Len(SYSTEM_PROMPTS)
        THEN G_enter(w1, run, 1, w.t.prompt_idx + 1)
        ELSE G_enter(w1, run, Len(Models) + 1, 1)

\* lines 277-286 / 291-300 then 302-304: the result is appended, progress
\* advances, the loops move on
G_complete_combination(w, run, result) ==
    LET current == w.t.current + 1
        t1 == [w.t EXCEPT !.results = Append(@, result), !.current = current,
                          !.combination_results = <<>>, !.pr_idx = 0, !.review = <<>>,
                          !.critical_result = FALSE, !.hallucination_result = FALSE]
        s1 == update_elapsed_time([w.st EXCEPT !.progress = current])
        w1 == [w EXCEPT !.st = s1, !.t = t1]
    IN  IF w.t.prompt_idx < Len(SYSTEM_PROMPTS)
        THEN G_enter(w1, run, w.t.model_idx, w.t.prompt_idx + 1)
        ELSE G_enter(w1, run, w.t.model_idx + 1, 1)

\* variant: the handler logs the error and records nothing
G_except_NoResult(w, run, error) ==
    LET w1 == [w EXCEPT !.st = add_log(w.st, run, "Error")]
    IN  IF w.t.prompt_idx < Len(SYSTEM_PROMPTS)
        THEN G_enter(w1, run, w.t.model_idx, w.t.prompt_idx + 1)
        ELSE G_enter(w1, run, w.t.model_idx + 1, 1)

\* lines 288-300: the except handler of one combination
G_except(w, run, error) ==
    G_complete_combination(
        [w EXCEPT !.st = add_log(w.st, run, "Error")], run,
        [model |-> Models[w.t.model_idx], prompt_id |-> SYSTEM_PROMPTS[w.t.prompt_idx],
         critical_detection_rate |-> Zero, hallucination_rate |-> One,
         helpfulness_rate |-> Zero, passed |-> FALSE,
         details |-> <<[error |-> error]>>])

\* lines 257-286: metrics of the finished item loop; n = 0 divides by zero
G_metrics(w, run) ==
    LET rs == w.t.combination_results
        n == Len(rs)
        critical_rate == Rate(Count(rs, "critical_detected"), n)
        hallucination_rate == Rate(Count(rs, "hallucinated"), n)
        helpfulness_rate == Rate(Count(rs, "helpful"), n)
    IN  IF n = 0 THEN G_except(w, run, "division by zero")
        ELSE G_complete_combination(
                [w EXCEPT !.st = add_logs(w.st, run, <<"", "Results for", "Critical Detection",
                                     "Hallucination Rate", "Helpfulness Rate", "Status">>)],
                run,
                [model |-> Models[w.t.model_idx],
                 prompt_id |-> SYSTEM_PROMPTS[w.t.prompt_idx],
                 critical_detection_rate |-> critical_rate,
                 hallucination_rate |-> hallucination_rate,
                 helpfulness_rate |-> helpfulness_rate,
                 passed |-> Passed(critical_rate, hallucination_rate),
                 details |-> rs])

\* lines 183-193: head of the item loop for item k up to the first await;
\* raises: the print of line 188 fails (the stream cannot take the text)
G_item_header(w, run, k, raises) ==
    LET s1 == update_elapsed_time([w.st EXCEPT !.current_pr = dataset[k].id,
                                               !.sub_progress = k])
        w1 == [w EXCEPT !.st = s1, !.t = [w.t EXCEPT !.pr_idx = k]]
    IN  IF raises THEN G_except(w1, run, "print failed")
        ELSE [w1 EXCEPT !.st = [add_log(s1, run, "PR") EXCEPT
                                   !.current_step = "Generating review..."],
                        !.t = [w1.t EXCEPT !.pc = "at193"]]

GlobalWorld(i) == [st |-> eval_status, t |-> global_tasks[i], cache |-> eval_results_cache]

GlobalCommit(i, w) ==
    /\ eval_status' = w.st
    /\ eval_results_cache' = w.cache
    /\ global_tasks' = [global_tasks EXCEPT ![i] = w.t]
    /\ UNCHANGED <<now, client, dataset, service_vars, twin, repo_vars, response>>

\* lines 175-193, or straight to the metrics when the dataset is empty
G_item_loop(w, run, raises) ==
    LET w1 == [w EXCEPT !.st = add_logs(w.st, run, <<"", "Testing">>),
                        !.t = [w.t EXCEPT !.combination_results = <<>>]]
    IN  IF Len(dataset) = 0
        THEN G_metrics(w1, run)
        ELSE G_item_header(w1, run, 1, raises)

\* variant: a failed candidate call is made again
G_run_candidate_model_Retries(w, run, o) ==
    LET s1 == add_log(w.st, run, IF o.review = Review_Error THEN "Review error"
                                                       ELSE "Review generated")
    IN  IF o.review = Review_Error
        THEN [w EXCEPT !.st = s1,
                       !.t = Called(w.t, "run_candidate_model", o.review)]
        ELSE [w EXCEPT !.st = [s1 EXCEPT !.current_step = "Oumi Judge: Critical detection..."],
                       !.t = [Called(w.t, "run_candidate_model", o.review) EXCEPT
                                 !.pc = "at209", !.review = o.review]]

\* lines 195-209: the candidate call answers o.review
G_run_candidate_model(w, run, o) ==
    LET s1 == add_log(w.st, run, IF o.review = Review_Error THEN "Review error"
                                                       ELSE "Review generated")
    IN  [w EXCEPT !.st = [s1 EXCEPT !.current_step = "Oumi Judge: Critical detection..."],
                  !.t = [Called(w.t, "run_candidate_model", o.review) EXCEPT
                            !.pc = "at209", !.review = o.review]]

\* lines 211-222: the critical-detection judge answers o.critical
G_judge_critical_detection(w, run, o) ==
    [w EXCEPT !.st = [add_log(w.st, run, "Critical") EXCEPT
                         !.current_step = "Oumi Judge: Hallucination check..."],
              !.t = [Called(w.t, "judge_critical_detection", w.t.review) EXCEPT
                        !.pc = "at222", !.critical_result = o.critical]]

\* variant: a hallucination found in one item stays set for the items after it
G_judge_hallucination_CarriesOver(w, run, o) ==
    [w EXCEPT !.st = [add_log(w.st, run, "Hallucination") EXCEPT
                         !.current_step = "Oumi Judge: Helpfulness..."],
              !.t = [Called(w.t, "judge_hallucination", w.t.review) EXCEPT
                        !.pc = "at235",
                        !.hallucination_result = w.t.hallucination_result \/ o.hallucinated]]

\* lines 224-235: the hallucination judge answers o.hallucinated
G_judge_hallucination(w, run, o) ==
    [w EXCEPT !.st = [add_log(w.st, run, "Hallucination") EXCEPT
                         !.current_step = "Oumi Judge: Helpfulness..."],
              !.t = [Called(w.t, "judge_hallucination", w.t.review) EXCEPT
                        !.pc = "at235", !.hallucination_result = o.hallucinated]]

\* variant: an item whose review is an error text is left out of the results
G_judge_helpfulness_DropsFailedItem(w, run, o, raises) ==
    LET t0 == Called(w.t, "judge_helpfulness", w.t.review)
        item == G_item_result(dataset[t0.pr_idx].id, t0.review, t0.critical_result,
                              t0.hallucination_result, o.helpful)
        w1 == [w EXCEPT !.st = add_log(w.st, run, "Helpful"),
                        !.t = IF t0.review = Review_Error THEN t0
                              ELSE [t0 EXCEPT !.combination_results = Append(@, item)]]
    IN  IF t0.pr_idx < Len(dataset)
        THEN G_item_header(w1, run, t0.pr_idx + 1, raises)
        ELSE G_metrics(w1, run)

\* lines 237-255: the helpfulness judge answers o.helpful and the item's
\* result is appended; then the next item, or lines 257-304 and the next
\* combination, or lines 306-329
G_judge_helpfulness(w, run, o, raises) ==
    LET t0 == Called(w.t, "judge_helpfulness", w.t.review)
        item == G_item_result(dataset[t0.pr_idx].id, t0.review, t0.critical_result,
                              t0.hallucination_result, o.helpful)
        w1 == [w EXCEPT !.st = add_log(w.st, run, "Helpful"),
                        !.t = [t0 EXCEPT !.combination_results = Append(@, item)]]
    IN  IF t0.pr_idx < Len(dataset)
        THEN G_item_header(w1, run, t0.pr_idx + 1, raises)
        ELSE G_metrics(w1, run)

\* the task starts: lines 149-173
G_begin(i) ==
    /\ global_tasks[i].pc = "scheduled"
    /\ GlobalCommit(i, G_enter(GlobalWorld(i), i, 1, 1))

\* resumes after the await of line 173
G_after173(i, raises) ==
    /\ global_tasks[i].pc = "at173"
    /\ GlobalCommit(i, G_item_loop(GlobalWorld(i), i, raises))

\* resumes after the await of line 193
G_after193(i) ==
    /\ global_tasks[i].pc = "at193"
    /\ \E o \in ItemOutcomes :
         GlobalCommit(i, G_run_candidate_model(GlobalWorld(i), i, o))

\* resumes after the await of line 209
G_after209(i) ==
    /\ global_tasks[i].pc = "at209"
    /\ \E o \in ItemOutcomes :
         /\ o.review = global_tasks[i].review
         /\ GlobalCommit(i, G_judge_critical_detection(GlobalWorld(i), i, o))

\* resumes after the await of line 222
G_after222(i) ==
    /\ global_tasks[i].pc = "at222"
    /\ \E o \in ItemOutcomes :
         /\ o.review = global_tasks[i].review
         /\ o.critical = global_tasks[i].critical_result
         /\ GlobalCommit(i, G_judge_hallucination(GlobalWorld(i), i, o))

\* resumes after the await of line 235
G_after235(i, raises) ==
    /\ global_tasks[i].pc = "at235"
    /\ \E o \in ItemOutcomes :
         /\ o.review = global_tasks[i].review
         /\ o.critical = global_tasks[i].critical_result
         /\ o.hallucinated = global_tasks[i].hallucination_result
         /\ GlobalCommit(i, G_judge_helpfulness(GlobalWorld(i), i, o, raises))

run_evaluation_task ==
    \E i \in DOMAIN global_tasks :
        \/ G_begin(i)
        \/ \E raises \in BOOLEAN : G_after173(i, raises)
        \/ G_after193(i)
        \/ G_after209(i)
        \/ G_after222(i)
        \/ \E raises \in BOOLEAN : G_after235(i, raises)

(* ---------------- global mode: status and results ---------------- *)
\* what GET /eval/global/status answers in this state
GlobalPollStatus ==
    IF eval_status.running THEN "running"
    ELSE IF "results" \in DOMAIN eval_results_cache THEN "complete"
    ELSE "idle"

\* variant: the status endpoint hands the results over and forgets them
get_eval_status_PopsResults ==
    /\ eval_status' = update_elapsed_time(eval_status)
    /\ response' = WithElapsed(
                      IF GlobalPollStatus = "complete"
                      THEN WithResults(Response("poll", "global", "complete", 0),
                                       eval_results_cache)
                      ELSE Response("poll", "global", GlobalPollStatus, 0),
                      update_elapsed_time(eval_status))
    /\ eval_results_cache' = IF GlobalPollStatus = "complete" THEN EmptyDict
                             ELSE eval_results_cache
    /\ UNCHANGED <<now, client, dataset, service_vars, twin, global_tasks, repo_vars>>

get_eval_status ==
    /\ eval_status' = update_elapsed_time(eval_status)
    /\ response' = WithElapsed(
                      IF GlobalPollStatus = "complete"
                      THEN WithResults(Response("poll", "global", "complete", 0),
                                       eval_results_cache)
                      ELSE Response("poll", "global", GlobalPollStatus, 0),
                      update_elapsed_time(eval_status))
    /\ UNCHANGED <<now, client, dataset, service_vars, twin, eval_results_cache, global_tasks,
                   repo_vars>>

\* variant: the endpoint answers "complete" whether or not there are results
get_eval_results_NoNotFound ==
    /\ response' = WithResults(Response("results", "global", "complete", 0),
                               eval_results_cache)
    /\ UNCHANGED <<now, client, dataset, service_vars, twin, global_vars, repo_vars>>

get_eval_results ==
    /\ response' = IF "results" \notin DOMAIN eval_results_cache
                   THEN Response("results", "global", "not found", 0)
                   ELSE WithResults(Response("results", "global", "complete", 0),
                                    eval_results_cache)
    /\ UNCHANGED <<now, client, dataset, service_vars, twin, global_vars, repo_vars>>

(* ---------------- repo-specific mode: start ---------------- *)
\* variant: the guard reads the results cache instead of the flag
RepoStartRejected_CacheTest == "results" \in DOMAIN repo_eval_results_cache

\* the rejecting guard of start_repo_eval (line 455)
RepoStartRejected == repo_eval_status.running

\* the dict assigned to repo_eval_status by an accepted start (lines 459-472)
RepoFreshStatus(total, n_prs) ==
    [running |-> TRUE, progress |-> 0, total |-> total,
     current_model |-> "", current_prompt |-> "", current_pr |-> 0,
     current_step |-> "Initializing...", sub_progress |-> 0,
     sub_total |-> n_prs, start_time |-> now,
     elapsed_time |-> 0, logs |-> <<>>]

start_repo_eval ==
    IF RepoStartRejected
    THEN /\ response' = Response("start", "repo", "conflict", 0)
         /\ UNCHANGED <<now, client, dataset, service_vars, twin, global_vars, repo_vars>>
    ELSE \E n \in 0..MaxItems :
         LET prs == [k \in 1..n |-> [id |-> k]]
             total == Len(Models) * Len(SYSTEM_PROMPTS)
             run == Len(repo_tasks) + 1
             fresh == RepoFreshStatus(total, Len(prs))
         IN  /\ Len(repo_tasks) < MaxRuns
             /\ repo_eval_status' = add_logs(fresh, run, <<"Starting", "Models", "PRs">>)
             /\ repo_eval_results_cache' = [k \in {"prs"} |-> prs]
             /\ repo_tasks' = Append(repo_tasks, [TaskRecord("scheduled") EXCEPT !.prs = prs])
             /\ response' = Response("start", "repo", "started", total)
             /\ UNCHANGED <<now, client, dataset, service_vars, twin, global_vars>>

(* ---------------- repo-specific mode: the matrix walk ---------------- *)
\* a < b on exact fractions
RateLess(a, b) == a.num * b.den < b.num * a.den

\* variant: the hallucination rate is not negated in the key
KeyGreater_HallucinationDescending(a, b) ==
    \/ RateLess(b.criticalDetectionRate, a.criticalDetectionRate)
    \/ /\ ~RateLess(a.criticalDetectionRate, b.criticalDetectionRate)
       /\ RateLess(b.hallucinationRate, a.hallucinationRate)

\* the sort key (criticalDetectionRate, -hallucinationRate) of a is greater
KeyGreater(a, b) ==
    \/ RateLess(b.criticalDetectionRate, a.criticalDetectionRate)
    \/ /\ ~RateLess(a.criticalDetectionRate, b.criticalDetectionRate)
       /\ RateLess(a.hallucinationRate, b.hallucinationRate)

\* variant: the list is sorted ascending and then reversed, which turns the
\* entries with an equal key round
SortedPlace_ReversedTies(rs, i) ==
    1 + Cardinality({j \in DOMAIN rs :
                        \/ KeyGreater(rs[j], rs[i])
                        \/ j > i /\ ~KeyGreater(rs[i], rs[j])})

\* the 1-based place of rs[i] after results.sort(key=..., reverse=True): behind
\* the entries with a greater key and, the sort being stable, behind the
\* earlier entries with an equal key
SortedPlace(rs, i) ==
    1 + Cardinality({j \in DOMAIN rs :
                        \/ KeyGreater(rs[j], rs[i])
                        \/ j < i /\ ~KeyGreater(rs[i], rs[j])})

\* results.sort(key=lambda x: (criticalDetectionRate, -hallucinationRate), reverse=True)
SortDescending(rs) ==
    [p \in DOMAIN rs |-> rs[CHOOSE i \in DOMAIN rs : SortedPlace(rs, i) = p]]

\* r["rank"] = i + 1
WithRanks(rs) ==
    [i \in 1..Len(rs) |->
        [k \in DOMAIN rs[i] \cup {"rank"} |-> IF k = "rank" THEN i ELSE rs[i][k]]]

\* variant: a critical rate of exactly 0.8 is not enough for "Recommended"
Verdict_StrictRecommended(critical_rate, hallucination_rate) ==
    IF /\ 5 * critical_rate.num > 4 * critical_rate.den
       /\ 20 * hallucination_rate.num <= 3 * hallucination_rate.den
    THEN "Recommended"
    ELSE IF Passed(critical_rate, hallucination_rate) THEN "Acceptable" ELSE "Rejected"

\* variant: a low hallucination rate alone earns "Recommended"
Verdict_HallucinationAlone(critical_rate, hallucination_rate) ==
    IF 20 * hallucination_rate.num <= 3 * hallucination_rate.den
    THEN "Recommended"
    ELSE IF Passed(critical_rate, hallucination_rate) THEN "Acceptable" ELSE "Rejected"

\* "Recommended" / "Acceptable" / "Rejected"
Verdict(critical_rate, hallucination_rate) ==
    IF /\ 5 * critical_rate.num >= 4 * critical_rate.den
       /\ 20 * hallucination_rate.num <= 3 * hallucination_rate.den
    THEN "Recommended"
    ELSE IF Passed(critical_rate, hallucination_rate) THEN "Acceptable" ELSE "Rejected"

\* lines 605-624: sort, rank, publication, running cleared
R_finalize(w, run) ==
    LET results == WithRanks(SortDescending(w.t.results))
        total_time == now - w.st.start_time
        logged == add_logs(w.st, run, <<"Evaluation complete!", "Best", "Total time">>)
    IN  IF results = <<>>
        THEN [w EXCEPT !.t = TaskRecord("failed")]     \* results[0]: IndexError
        ELSE [st |-> [logged EXCEPT !.running = FALSE, !.elapsed_time = total_time],
              t |-> TaskRecord("done"),
              cache |-> [k \in DOMAIN w.cache \cup {"results"} |->
                            IF k = "results" THEN results ELSE w.cache[k]]]

\* variant: sub_total is given the size of the global dataset
R_enter_DatasetSubTotal(w, run, mi, pi) ==
    IF mi > Len(Models) THEN R_finalize(w, run)
    ELSE LET s1 == IF pi = 1 THEN add_log(w.st, run, "Testing model") ELSE w.st
             s2 == [s1 EXCEPT !.current_model = Models[mi],
                              !.current_prompt = SYSTEM_PROMPTS[pi],
                              !.current_step = "Testing",
                              !.sub_progress = 0,
                              !.sub_total = Len(dataset)]
         IN  [w EXCEPT !.st = s2,
                       !.t = [w.t EXCEPT !.pc = "at513", !.model_idx = mi,
                                         !.prompt_idx = pi]]

\* loop control arriving at combination (mi, pi): lines 499-513, or the end
R_enter(w, run, mi, pi) ==
    IF mi > Len(Models) THEN R_finalize(w, run)
    ELSE LET s1 == IF pi = 1 THEN add_log(w.st, run, "Testing model") ELSE w.st
             s2 == [s1 EXCEPT !.current_model = Models[mi],
                              !.current_prompt = SYSTEM_PROMPTS[pi],
                              !.current_step = "Testing",
                              !.sub_progress = 0,
                              !.sub_total = Len(w.t.prs)]
         IN  [w EXCEPT !.st = s2,
                       !.t = [w.t EXCEPT !.pc = "at513", !.model_idx = mi,
                                         !.prompt_idx = pi]]

\* variant: the counter is advanced but not written to the status dict
R_complete_combination_NoProgress(w, run) ==
    LET rs == w.t.combination_results
        n == Len(rs)
        critical_rate == IF n > 0 THEN Rate(Count(rs, "critical_detected"), n) ELSE Zero
        hallucination_rate == IF n > 0 THEN Rate(Count(rs, "hallucinated"), n) ELSE Zero
        helpfulness_rate == IF n > 0 THEN Rate(Count(rs, "helpful"), n) ELSE Zero
        passed == Passed(critical_rate, hallucination_rate)
        result == [model |-> Models[w.t.model_idx],
                   promptId |-> SYSTEM_PROMPTS[w.t.prompt_idx],
                   criticalDetectionRate |-> critical_rate,
                   hallucinationRate |-> hallucination_rate,
                   helpfulnessRate |-> helpfulness_rate,
                   passed |-> passed,
                   verdict |-> Verdict(critical_rate, hallucination_rate),
                   details |-> rs]
        t1 == [w.t EXCEPT !.results = Append(@, result), !.current = w.t.current + 1,
                          !.combination_results = <<>>, !.pr_idx = 0, !.review = <<>>,
                          !.critical_result = FALSE, !.hallucination_result = FALSE]
        w1 == [w EXCEPT !.st = add_log(w.st, run, "Result"), !.t = t1]
    IN  IF w.t.prompt_idx < Len(SYSTEM_PROMPTS)
        THEN R_enter(w1, run, w.t.model_idx, w.t.prompt_idx + 1)
        ELSE R_enter(w1, run, w.t.model_idx + 1, 1)

\* lines 578-603: rates (0 for an empty list), verdict, the result appended,
\* progress advanced, the loops move on
R_complete_combination(w, run) ==
    LET rs == w.t.combination_results
        n == Len(rs)
        critical_rate == IF n > 0 THEN Rate(Count(rs, "critical_detected"), n) ELSE Zero
        hallucination_rate == IF n > 0 THEN Rate(Count(rs, "hallucinated"), n) ELSE Zero
        helpfulness_rate == IF n > 0 THEN Rate(Count(rs, "helpful"), n) ELSE Zero
        passed == Passed(critical_rate, hallucination_rate)
        result == [model |-> Models[w.t.model_idx],
                   promptId |-> SYSTEM_PROMPTS[w.t.prompt_idx],
                   criticalDetectionRate |-> critical_rate,
                   hallucinationRate |-> hallucination_rate,
                   helpfulnessRate |-> helpfulness_rate,
                   passed |-> passed,
                   verdict |-> Verdict(critical_rate, hallucination_rate),
                   details |-> rs]
        current == w.t.current + 1
        t1 == [w.t EXCEPT !.results = Append(@, result), !.current = current,
                          !.combination_results = <<>>, !.pr_idx = 0, !.review = <<>>,
                          !.critical_result = FALSE, !.hallucination_result = FALSE]
        s1 == [add_log(w.st, run, "Result") EXCEPT !.progress = current]
        w1 == [w EXCEPT !.st = s1, !.t = t1]
    IN  IF w.t.prompt_idx < Len(SYSTEM_PROMPTS)
        THEN R_enter(w1, run, w.t.model_idx, w.t.prompt_idx + 1)
        ELSE R_enter(w1, run, w.t.model_idx + 1, 1)

\* lines 521-530: head of the item loop for item k up to the first await;
\* raises: the print of line 525 fails; nothing catches it, the task ends
R_item_header(w, run, k, raises) ==
    LET s1 == [w.st EXCEPT !.current_pr = w.t.prs[k].id,
                           !.sub_progress = k,
                           !.elapsed_time = now - w.st.start_time]
    IN  IF raises THEN [w EXCEPT !.st = s1, !.t = TaskRecord("failed")]
        ELSE [w EXCEPT !.st = [add_log(s1, run, "Evaluating PR") EXCEPT
                                  !.current_step = "Generating review..."],
                       !.t = [w.t EXCEPT !.pc = "at530", !.pr_idx = k]]

RepoWorld(i) == [st |-> repo_eval_status, t |-> repo_tasks[i],
                 cache |-> repo_eval_results_cache]

\* variant: the repo walk keeps its log lines in the global mode's buffer too
RepoCommit_SharedLogs(i, w) ==
    /\ repo_eval_status' = w.st
    /\ repo_eval_results_cache' = w.cache
    /\ repo_tasks' = [repo_tasks EXCEPT ![i] = w.t]
    /\ eval_status' = [eval_status EXCEPT !.logs = w.st.logs]
    /\ UNCHANGED <<now, client, dataset, service_vars, twin, eval_results_cache,
                   global_tasks, response>>

\* the repo walk's writes: its own status, cache and task (lines 479-624)
RepoCommit(i, w) ==
    /\ repo_eval_status' = w.st
    /\ repo_eval_results_cache' = w.cache
    /\ repo_tasks' = [repo_tasks EXCEPT ![i] = w.t]
    /\ UNCHANGED <<now, client, dataset, service_vars, twin, global_vars, response>>

\* lines 515-530, or straight to lines 578-603 when prs is empty
R_item_loop(w, run, raises) ==
    LET w1 == [w EXCEPT !.st = add_log(w.st, run, "Prompt"),
                        !.t = [w.t EXCEPT !.combination_results = <<>>]]
    IN  IF Len(w.t.prs) = 0
        THEN R_complete_combination(w1, run)
        ELSE R_item_header(w1, run, 1, raises)

\* lines 532-539: the candidate call answers o.review
R_run_candidate_model(w, run, o) ==
    [w EXCEPT !.st = [w.st EXCEPT !.current_step = "Oumi Judge: Critical..."],
              !.t = [Called(w.t, "run_candidate_model", o.review) EXCEPT
                        !.pc = "at539", !.review = o.review]]

\* lines 541-549: the critical-detection judge answers o.critical
R_judge_critical_detection(w, run, o) ==
    [w EXCEPT !.st = [w.st EXCEPT !.current_step = "Oumi Judge: Hallucination..."],
              !.t = [Called(w.t, "judge_critical_detection", w.t.review) EXCEPT
                        !.pc = "at549", !.critical_result = o.critical]]

\* lines 551-559: the hallucination judge answers o.hallucinated
R_judge_hallucination(w, run, o) ==
    [w EXCEPT !.st = [w.st EXCEPT !.current_step = "Oumi Judge: Helpfulness..."],
              !.t = [Called(w.t, "judge_hallucination", w.t.review) EXCEPT
                        !.pc = "at559", !.hallucination_result = o.hallucinated]]

\* lines 561-576: the helpfulness judge answers o.helpful and the item's
\* result is appended; then the next item, or lines 578-603 and the next
\* combination, or lines 605-624
R_judge_helpfulness(w, run, o, raises) ==
    LET t0 == Called(w.t, "judge_helpfulness", w.t.review)
        item == R_item_result(t0.prs[t0.pr_idx].id, t0.review, t0.critical_result,
                              t0.hallucination_result, o.helpful)
        w1 == [w EXCEPT !.st = add_log(w.st, run, "Focus detection"),
                        !.t = [t0 EXCEPT !.combination_results = Append(@, item)]]
    IN  IF t0.pr_idx < Len(t0.prs)
        THEN R_item_header(w1, run, t0.pr_idx + 1, raises)
        ELSE R_complete_combination(w1, run)

\* the task starts: lines 495-513
R_begin(i) ==
    /\ repo_tasks[i].pc = "scheduled"
    /\ RepoCommit(i, R_enter(RepoWorld(i), i, 1, 1))

\* resumes after the await of line 513
R_after513(i, raises) ==
    /\ repo_tasks[i].pc = "at513"
    /\ RepoCommit(i, R_item_loop(RepoWorld(i), i, raises))

\* resumes after the await of line 530
R_after530(i) ==
    /\ repo_tasks[i].pc = "at530"
    /\ \E o \in ItemOutcomes :
         RepoCommit(i, R_run_candidate_model(RepoWorld(i), i, o))

\* resumes after the await of line 539
R_after539(i) ==
    /\ repo_tasks[i].pc = "at539"
    /\ \E o \in ItemOutcomes :
         /\ o.review = repo_tasks[i].review
         /\ RepoCommit(i, R_judge_critical_detection(RepoWorld(i), i, o))

\* resumes after the await of line 549
R_after549(i) ==
    /\ repo_tasks[i].pc = "at549"
    /\ \E o \in ItemOutcomes :
         /\ o.review = repo_tasks[i].review
         /\ o.critical = repo_tasks[i].critical_result
         /\ RepoCommit(i, R_judge_hallucination(RepoWorld(i), i, o))

\* resumes after the await of line 559
R_after559(i, raises) ==
    /\ repo_tasks[i].pc = "at559"
    /\ \E o \in ItemOutcomes :
         /\ o.review = repo_tasks[i].review
         /\ o.critical = repo_tasks[i].critical_result
         /\ o.hallucinated = repo_tasks[i].hallucination_result
         /\ RepoCommit(i, R_judge_helpfulness(RepoWorld(i), i, o, raises))

run_repo_evaluation_task ==
    \E i \in DOMAIN repo_tasks :
        \/ R_begin(i)
        \/ \E raises \in BOOLEAN : R_after513(i, raises)
        \/ R_after530(i)
        \/ R_after539(i)
        \/ R_after549(i)
        \/ \E raises \in BOOLEAN : R_after559(i, raises)

(* ---------------- repo-specific mode: status ---------------- *)
\* variant: a mode that is not running is reported idle
RepoPollStatus_IdleWhenNotRunning ==
    IF repo_eval_status.running THEN "running" ELSE "idle"

\* what GET /eval/repo/status answers in this state
RepoPollStatus ==
    IF repo_eval_status.running THEN "running"
    ELSE IF "results" \in DOMAIN repo_eval_results_cache THEN "complete"
    ELSE "idle"

\* variant: the poll records in the status that it was read
get_repo_eval_status_MarksRead ==
    /\ repo_eval_status' = [update_elapsed_time(repo_eval_status)
                               EXCEPT !.current_step = "Read"]
    /\ response' = WithElapsed(
                      IF RepoPollStatus = "complete"
                      THEN WithResults(Response("poll", "repo", "complete", 0),
                                       repo_eval_results_cache)
                      ELSE Response("poll", "repo", RepoPollStatus, 0),
                      update_elapsed_time(repo_eval_status))
    /\ UNCHANGED <<now, client, dataset, service_vars, twin, global_vars,
                   repo_eval_results_cache, repo_tasks>>

get_repo_eval_status ==
    /\ repo_eval_status' = update_elapsed_time(repo_eval_status)
    /\ response' = WithElapsed(
                      IF RepoPollStatus = "complete"
                      THEN WithResults(Response("poll", "repo", "complete", 0),
                                       repo_eval_results_cache)
                      ELSE Response("poll", "repo", RepoPollStatus, 0),
                      update_elapsed_time(repo_eval_status))
    /\ UNCHANGED <<now, client, dataset, service_vars, twin, global_vars,
                   repo_eval_results_cache, repo_tasks>>

(* ---------------- the specifications ---------------- *)
\* The modes share no state (lines 20-34 and 418-433); the client of a
\* behaviour calls the endpoints of one mode, chosen in Init.  The walks are
\* steps of the server.  In Spec a behaviour fits into one second of the clock.
Next ==
    \/ client = "global" /\ start_global_eval
    \/ client = "global" /\ get_eval_status
    \/ client = "global" /\ get_eval_results
    \/ client = "repo" /\ start_repo_eval
    \/ client = "repo" /\ get_repo_eval_status
    \/ run_evaluation_task
    \/ run_repo_evaluation_task

Spec == Init /\ [][Next]_vars

\* every scheduled walk keeps taking steps: each await asyncio.sleep(0.01)
\* resumes and each external call returns
FairSpec == Spec /\ WF_vars(run_evaluation_task) /\ WF_vars(run_repo_evaluation_task)

\* the same with the clock advancing
TimedNext == Next \/ Tick

TimedSpec == Init /\ [][TimedNext]_vars

\* no candidate call of a walk has failed
CandidateCallsSucceed ==
    /\ \A i \in DOMAIN global_tasks : global_tasks[i].review # Review_Error
    /\ \A i \in DOMAIN repo_tasks : repo_tasks[i].review # Review_Error

\* the clock advancing while every candidate call succeeds
ClockNext ==
    \/ Tick
    \/ client = "global" /\ start_global_eval
    \/ client = "global" /\ get_eval_status
    \/ client = "global" /\ get_eval_results
    \/ client = "repo" /\ start_repo_eval
    \/ client = "repo" /\ get_repo_eval_status
    \/ run_evaluation_task /\ CandidateCallsSucceed'
    \/ run_repo_evaluation_task /\ CandidateCallsSucceed'

ClockSpec == Init /\ [][ClockNext]_vars

(* ---------------- runs observed from their last item ---------------- *)
\* the segment the global walk executes when it resumes, the services
\* answering o to the calls of that segment
G_resume(w, run, o, raises) ==
    CASE w.t.pc = "scheduled" -> G_enter(w, run, 1, 1)
      [] w.t.pc = "at173" -> G_item_loop(w, run, raises)
      [] w.t.pc = "at193" -> G_run_candidate_model(w, run, o)
      [] w.t.pc = "at209" -> G_judge_critical_detection(w, run, o)
      [] w.t.pc = "at222" -> G_judge_hallucination(w, run, o)
      [] w.t.pc = "at235" -> G_judge_helpfulness(w, run, o, raises)
      [] OTHER -> w

R_resume(w, run, o, raises) ==
    CASE w.t.pc = "scheduled" -> R_enter(w, run, 1, 1)
      [] w.t.pc = "at513" -> R_item_loop(w, run, raises)
      [] w.t.pc = "at530" -> R_run_candidate_model(w, run, o)
      [] w.t.pc = "at539" -> R_judge_critical_detection(w, run, o)
      [] w.t.pc = "at549" -> R_judge_hallucination(w, run, o)
      [] w.t.pc = "at559" -> R_judge_helpfulness(w, run, o, raises)
      [] OTHER -> w

\* the walk after `steps` more resumptions; answers[c][k] is what the
\* services answer for item k of the c-th combination, and answers[c][1].raises
\* tells whether the item loop of the c-th combination raises at its head
RECURSIVE G_advance(_, _, _, _)
G_advance(w, run, answers, steps) ==
    IF steps = 0 THEN w
    ELSE IF steps = 1
    THEN G_resume(w, run, answers[w.t.current + 1][w.t.pr_idx],
                  answers[w.t.current + 1][1].raises)
    ELSE CHOOSE r \in {G_advance(w1, run, answers, steps - steps \div 2) :
                          w1 \in {G_advance(w, run, answers, steps \div 2)}} : TRUE

RECURSIVE R_advance(_, _, _, _)
R_advance(w, run, answers, steps) ==
    IF steps = 0 THEN w
    ELSE IF steps = 1
    THEN R_resume(w, run, answers[w.t.current + 1][w.t.pr_idx], FALSE)
    ELSE CHOOSE r \in {R_advance(w1, run, answers, steps - steps \div 2) :
                          w1 \in {R_advance(w, run, answers, steps \div 2)}} : TRUE

\* item-list sizes of the observed runs: the small ones, and 20, the least
\* size on which rates of exactly 0.35 and 0.15 occur
SampleSizes == (1..(MaxItems + 1)) \cup {20}

\* what happened in the earlier combinations, as <<critical, hallucinated,
\* raises>>: for the small sizes every combination was answered alike on all
\* its items, in each of the four ways, or its item loop raised (in global
\* mode, whose walk goes on after that); for size 20 all were answered
\* favourably
SampleEarlier(n, mode) ==
    IF n <= MaxItems + 1
    THEN [1..(Len(Models) * Len(SYSTEM_PROMPTS) - 1) ->
             (BOOLEAN \X BOOLEAN \X {FALSE})
                \cup (IF mode = "global" THEN {<<FALSE, FALSE, TRUE>>} ELSE {})]
    ELSE {[c \in 1..(Len(Models) * Len(SYSTEM_PROMPTS) - 1) |-> <<TRUE, FALSE, FALSE>>]}

\* the answers of a run: earlier[c] for every item of combination c, and in
\* the last combination detected=true from the critical judge for the first
\* kc items, from the hallucination judge for the first kh items
SampleAnswers(n, earlier, kc, kh) ==
    [c \in 1..(Len(Models) * Len(SYSTEM_PROMPTS)) |->
        [k \in 1..n |->
            IF c \in DOMAIN earlier
            THEN [review |-> Review_ok, critical |-> earlier[c][1],
                  hallucinated |-> earlier[c][2], helpful |-> earlier[c][1],
                  raises |-> earlier[c][3]]
            ELSE [review |-> Review_ok, critical |-> k <= kc,
                  hallucinated |-> k <= kh, helpful |-> k <= kc,
                  raises |-> FALSE]]]

\* resumptions from the scheduled task to the head of the last combination:
\* one to start, and for each earlier combination one for the head of its
\* item loop and, unless that raises, four for each item
RECURSIVE EarlierSteps(_, _, _)
EarlierSteps(n, earlier, c) ==
    IF c = 0 THEN 1
    ELSE EarlierSteps(n, earlier, c - 1) + 1 + (IF earlier[c][3] THEN 0 ELSE 4 * n)

\* resumptions from there to the candidate call of the last item
LastSteps(n) == 1 + 4 * (n - 1)

\* The first run of one mode, accepted at time 1 with n items, observed when
\* its walk is about to make the candidate call for the last item of the
\* last combination.
SampleInit ==
    /\ now = 1
    /\ service_call = [op |-> "none"]
    /\ service_result = [op |-> "none"]
    /\ twin = NoTwin
    /\ client \in {"global", "repo"}
    /\ \E n \in SampleSizes :
       \E earlier \in SampleEarlier(n, client) :
       \E items \in {[k \in 1..n |-> [id |-> k]]} :
          /\ dataset = items
          /\ response = Response("start", client, "started",
                                 Len(Models) * Len(SYSTEM_PROMPTS))
          /\ IF client = "global"
             THEN \E w0 \in {[st |-> add_logs(GlobalFreshStatus(
                                        Len(Models) * Len(SYSTEM_PROMPTS), n), 1,
                                        <<"Starting", "Models", "Dataset", "Estimated">>),
                              t |-> TaskRecord("scheduled"),
                              cache |-> EmptyDict]} :
                  \E w1 \in {G_advance(w0, 1, SampleAnswers(n, earlier, 0, 0),
                                       EarlierSteps(n, earlier, Len(earlier)))} :
                  \E kc \in 0..(n - 1), kh \in 0..(n - 1) :
                  \E w \in {G_advance(w1, 1, SampleAnswers(n, earlier, kc, kh),
                                      LastSteps(n))} :
                      /\ eval_status = w.st
                      /\ eval_results_cache = w.cache
                      /\ global_tasks = <<w.t>>
                      /\ repo_eval_status = InitialStatus
                      /\ repo_eval_results_cache = EmptyDict
                      /\ repo_tasks = <<>>
             ELSE \E w0 \in {[st |-> add_logs(RepoFreshStatus(
                                        Len(Models) * Len(SYSTEM_PROMPTS), n), 1,
                                        <<"Starting", "Models", "PRs">>),
                              t |-> [TaskRecord("scheduled") EXCEPT !.prs = items],
                              cache |-> [k \in {"prs"} |-> items]]} :
                  \E w1 \in {R_advance(w0, 1, SampleAnswers(n, earlier, 0, 0),
                                       EarlierSteps(n, earlier, Len(earlier)))} :
                  \E kc \in 0..(n - 1), kh \in 0..(n - 1) :
                  \E w \in {R_advance(w1, 1, SampleAnswers(n, earlier, kc, kh),
                                      LastSteps(n))} :
                      /\ repo_eval_status = w.st
                      /\ repo_eval_results_cache = w.cache
                      /\ repo_tasks = <<w.t>>
                      /\ eval_status = InitialStatus
                      /\ eval_results_cache = EmptyDict
                      /\ global_tasks = <<>>

\* the rest of the run: the walk, and the client reading status and results
SampleNext ==
    \/ client = "global" /\ get_eval_status
    \/ client = "global" /\ get_eval_results
    \/ client = "repo" /\ get_repo_eval_status
    \/ run_evaluation_task
    \/ run_repo_evaluation_task

SampleSpec == SampleInit /\ [][SampleNext]_vars

(* ---------------- eval_service: texts ---------------- *)
\* A text is a tuple of one-character strings; Backtick stands for the
\* character of a code fence.
Backtick == "backtick"
UpperLetters ==
    <<"A", "B", "C", "D", "E", "F", "G", "H", "I", "J", "K", "L", "M",
      "N", "O", "P", "Q", "R", "S", "T", "U", "V", "W", "X", "Y", "Z">>
LowerLetters ==
    <<"a", "b", "c", "d", "e", "f", "g", "h", "i", "j", "k", "l", "m",
      "n", "o", "p", "q", "r", "s", "t", "u", "v", "w", "x", "y", "z">>

\* str.lower
LowerChar(c) ==
    IF \E k \in DOMAIN UpperLetters : UpperLetters[k] = c
    THEN LowerLetters[CHOOSE k \in DOMAIN UpperLetters : UpperLetters[k] = c]
    ELSE c
lower(s) == [k \in 1..Len(s) |-> LowerChar(s[k])]

\* the whitespace of the replies
Whitespace == {" "}

\* str.strip
RECURSIVE lstrip(_)
lstrip(s) == IF s # <<>> /\ Head(s) \in Whitespace THEN lstrip(Tail(s)) ELSE s
RECURSIVE rstrip(_)
rstrip(s) ==
    IF s # <<>> /\ s[Len(s)] \in Whitespace THEN rstrip(SubSeq(s, 1, Len(s) - 1)) ELSE s
strip(s) == rstrip(lstrip(s))

\* s[:n] and s[n:]
Slice(s, n) == SubSeq(s, 1, IF Len(s) < n THEN Len(s) ELSE n)
From(s, n) == SubSeq(s, n + 1, Len(s))

\* sub occurs in s at index i
OccursAt(s, sub, i) ==
    i + Len(sub) - 1 <= Len(s) /\ SubSeq(s, i, i + Len(sub) - 1) = sub

\* the index of the first occurrence of sub in s, 0 when there is none
find(s, sub) ==
    LET hits == {i \in 1..Len(s) : OccursAt(s, sub, i)}
    IN  IF hits = {} THEN 0 ELSE CHOOSE i \in hits : \A j \in hits : i <= j

\* sub in s
Contains(s, sub) == find(s, sub) # 0

\* s.startswith(prefix)
startswith(s, prefix) == OccursAt(s, prefix, 1)

\* s.split(sep)[1], for an s that contains sep
split_1(s, sep) ==
    LET rest == From(s, find(s, sep) + Len(sep) - 1)
        next == find(rest, sep)
    IN  IF next = 0 THEN rest ELSE Slice(rest, next - 1)

\* the literal strings of eval_service.py and of the replies, as tuples of
\* characters

\* "missed the null check"
Text_Missed ==
    <<"m", "i", "s", "s", "e", "d", " ", "t", "h", "e", " ", "n", "u", "l",
      "l", " ", "c", "h", "e", "c", "k">>

\* "the diff has no sql"
Text_NoSql ==
    <<"t", "h", "e", " ", "d", "i", "f", "f", " ", "h", "a", "s", " ", "n",
      "o", " ", "s", "q", "l">>

\* "yes"
Text_yes ==
    <<"y", "e", "s">>

\* "true"
Text_true ==
    <<"t", "r", "u", "e">>

\* "no"
Text_no ==
    <<"n", "o">>

\* "false"
Text_false ==
    <<"f", "a", "l", "s", "e">>

\* "YES"
Text_YES ==
    <<"Y", "E", "S">>

\* "null_check"
Text_null_check ==
    <<"n", "u", "l", "l", "_", "c", "h", "e", "c", "k">>

\* "used before the check"
Text_UsedBefore ==
    <<"u", "s", "e", "d", " ", "b", "e", "f", "o", "r", "e", " ", "t", "h",
      "e", " ", "c", "h", "e", "c", "k">>

\* "unclear"
Text_unclear ==
    <<"u", "n", "c", "l", "e", "a", "r">>

\* "json"
Text_json ==
    <<"j", "s", "o", "n">>

\* "```"
Text_Fence ==
    <<Backtick, Backtick, Backtick>>

\* "Could not parse: "
Text_CouldNotParse ==
    <<"C", "o", "u", "l", "d", " ", "n", "o", "t", " ", "p", "a", "r", "s",
      "e", ":", " ">>

\* "Judge error: "
Text_JudgeError ==
    <<"J", "u", "d", "g", "e", " ", "e", "r", "r", "o", "r", ":", " ">>

\* "Could not analyze: "
Text_CouldNotAnalyze ==
    <<"C", "o", "u", "l", "d", " ", "n", "o", "t", " ", "a", "n", "a", "l",
      "y", "z", "e", ":", " ">>

\* "code_quality"
Text_code_quality ==
    <<"c", "o", "d", "e", "_", "q", "u", "a", "l", "i", "t", "y">>

\* "General code review"
Text_GeneralCodeReview ==
    <<"G", "e", "n", "e", "r", "a", "l", " ", "c", "o", "d", "e", " ", "r",
      "e", "v", "i", "e", "w">>

\* "Request timed out."
Text_timeout ==
    <<"R", "e", "q", "u", "e", "s", "t", " ", "t", "i", "m", "e", "d", " ",
      "o", "u", "t", ".">>


\* the texts of the JSON documents among the replies

\* {"judgment": true}
Doc_True_Text ==
    <<"{", "\"", "j", "u", "d", "g", "m", "e", "n", "t", "\"", ":", " ", "t",
      "r", "u", "e", "}">>

\* {"judgment": false}
Doc_False_Text ==
    <<"{", "\"", "j", "u", "d", "g", "m", "e", "n", "t", "\"", ":", " ", "f",
      "a", "l", "s", "e", "}">>

\* {"judgment": false, "reason": "missed the null check"}
Doc_FalseReason_Text ==
    <<"{", "\"", "j", "u", "d", "g", "m", "e", "n", "t", "\"", ":", " ", "f",
      "a", "l", "s", "e", ",", " ", "\"", "r", "e", "a", "s", "o", "n", "\"",
      ":", " ", "\"", "m", "i", "s", "s", "e", "d", " ", "t", "h", "e", " ",
      "n", "u", "l", "l", " ", "c", "h", "e", "c", "k", "\"", "}">>

\* {"judgment": true, "reason": "the diff has no sql"}
Doc_TrueReason_Text ==
    <<"{", "\"", "j", "u", "d", "g", "m", "e", "n", "t", "\"", ":", " ", "t",
      "r", "u", "e", ",", " ", "\"", "r", "e", "a", "s", "o", "n", "\"", ":",
      " ", "\"", "t", "h", "e", " ", "d", "i", "f", "f", " ", "h", "a", "s",
      " ", "n", "o", " ", "s", "q", "l", "\"", "}">>

\* {"judgment": "yes"}
Doc_StrYes_Text ==
    <<"{", "\"", "j", "u", "d", "g", "m", "e", "n", "t", "\"", ":", " ", "\"",
      "y", "e", "s", "\"", "}">>

\* {"judgment": "true"}
Doc_StrTrue_Text ==
    <<"{", "\"", "j", "u", "d", "g", "m", "e", "n", "t", "\"", ":", " ", "\"",
      "t", "r", "u", "e", "\"", "}">>

\* {"judgment": "1"}
Doc_StrOne_Text ==
    <<"{", "\"", "j", "u", "d", "g", "m", "e", "n", "t", "\"", ":", " ", "\"",
      "1", "\"", "}">>

\* {"judgment": "no"}
Doc_StrNo_Text ==
    <<"{", "\"", "j", "u", "d", "g", "m", "e", "n", "t", "\"", ":", " ", "\"",
      "n", "o", "\"", "}">>

\* {"judgment": "false"}
Doc_StrFalse_Text ==
    <<"{", "\"", "j", "u", "d", "g", "m", "e", "n", "t", "\"", ":", " ", "\"",
      "f", "a", "l", "s", "e", "\"", "}">>

\* {"judgment": "0"}
Doc_StrZero_Text ==
    <<"{", "\"", "j", "u", "d", "g", "m", "e", "n", "t", "\"", ":", " ", "\"",
      "0", "\"", "}">>

\* {"judgment": "YES"}
Doc_StrYES_Text ==
    <<"{", "\"", "j", "u", "d", "g", "m", "e", "n", "t", "\"", ":", " ", "\"",
      "Y", "E", "S", "\"", "}">>

\* {"detected": true}
Doc_Detected_Text ==
    <<"{", "\"", "d", "e", "t", "e", "c", "t", "e", "d", "\"", ":", " ", "t",
      "r", "u", "e", "}">>

\* true
Doc_BareTrue_Text ==
    <<"t", "r", "u", "e">>

\* []
Doc_Array_Text ==
    <<"[", "]">>

\* {"focus": "null_check", "explanation": "used before the check"}
Doc_Focus_Text ==
    <<"{", "\"", "f", "o", "c", "u", "s", "\"", ":", " ", "\"", "n", "u", "l",
      "l", "_", "c", "h", "e", "c", "k", "\"", ",", " ", "\"", "e", "x", "p",
      "l", "a", "n", "a", "t", "i", "o", "n", "\"", ":", " ", "\"", "u", "s",
      "e", "d", " ", "b", "e", "f", "o", "r", "e", " ", "t", "h", "e", " ",
      "c", "h", "e", "c", "k", "\"", "}">>

\* {"explanation": "unclear"}
Doc_NoFocus_Text ==
    <<"{", "\"", "e", "x", "p", "l", "a", "n", "a", "t", "i", "o", "n", "\"",
      ":", " ", "\"", "u", "n", "c", "l", "e", "a", "r", "\"", "}">>


\* replies that are not JSON documents

\* "```json {"judgment": true} ```"
Reply_Fenced ==
    <<Backtick, Backtick, Backtick, "j", "s", "o", "n", " ", "{", "\"", "j", "u", "d", "g",
      "m", "e", "n", "t", "\"", ":", " ", "t", "r", "u", "e", "}", " ", Backtick,
      Backtick, Backtick>>

\* "YES, this is clearly a problem"
Reply_YesSentence ==
    <<"Y", "E", "S", ",", " ", "t", "h", "i", "s", " ", "i", "s", " ", "c",
      "l", "e", "a", "r", "l", "y", " ", "a", " ", "p", "r", "o", "b", "l",
      "e", "m">>

\* "YES. ```diff``` shows it"
Reply_YesFenced ==
    <<"Y", "E", "S", ".", " ", Backtick, Backtick, Backtick, "d", "i", "f", "f", Backtick, Backtick,
      Backtick, " ", "s", "h", "o", "w", "s", " ", "i", "t">>

\* "No"
Reply_No ==
    <<"N", "o">>

\* "No, the review misses it"
Reply_NoSentence ==
    <<"N", "o", ",", " ", "t", "h", "e", " ", "r", "e", "v", "i", "e", "w",
      " ", "m", "i", "s", "s", "e", "s", " ", "i", "t">>

\* "???"
Reply_QuestionMarks ==
    <<"?", "?", "?">>

\* ""
Reply_Empty ==
    <<>>

\* "I cannot tell."
Reply_CannotTell ==
    <<"I", " ", "c", "a", "n", "n", "o", "t", " ", "t", "e", "l", "l", ".">>

\* "No - yes only in part"
Reply_NoYes ==
    <<"N", "o", " ", "-", " ", "y", "e", "s", " ", "o", "n", "l", "y", " ",
      "i", "n", " ", "p", "a", "r", "t">>

\* "The assistant is unable to judge this review because the diff was cut
\* short and the rest of the text is missing."
Reply_LongGarbage ==
    <<"T", "h", "e", " ", "a", "s", "s", "i", "s", "t", "a", "n", "t", " ",
      "i", "s", " ", "u", "n", "a", "b", "l", "e", " ", "t", "o", " ", "j",
      "u", "d", "g", "e", " ", "t", "h", "i", "s", " ", "r", "e", "v", "i",
      "e", "w", " ", "b", "e", "c", "a", "u", "s", "e", " ", "t", "h", "e",
      " ", "d", "i", "f", "f", " ", "w", "a", "s", " ", "c", "u", "t", " ",
      "s", "h", "o", "r", "t", " ", "a", "n", "d", " ", "t", "h", "e", " ",
      "r", "e", "s", "t", " ", "o", "f", " ", "t", "h", "e", " ", "t", "e",
      "x", "t", " ", "i", "s", " ", "m", "i", "s", "s", "i", "n", "g", ".">>

(* ---------------- eval_service: JSON ---------------- *)
\* JSON values as Python sees them: None, a bool, a str, a list, a dict
JNull == [type |-> "null"]
JBool(b) == [type |-> "bool", val |-> b]
JStr(s) == [type |-> "str", val |-> s]
JArray == [type |-> "array", val |-> <<>>]
JObject(members) == [type |-> "object", val |-> members]

\* the documents json.loads accepts among the texts it is given here, each
\* with its value; the reasons and labels of the documents are strings
JsonDocuments ==
    { [text |-> Doc_True_Text,
       value |-> JObject([k \in {"judgment"} |-> JBool(TRUE)])],
      [text |-> Doc_False_Text,
       value |-> JObject([k \in {"judgment"} |-> JBool(FALSE)])],
      [text |-> Doc_FalseReason_Text,
       value |-> JObject([judgment |-> JBool(FALSE), reason |-> JStr(Text_Missed)])],
      [text |-> Doc_TrueReason_Text,
       value |-> JObject([judgment |-> JBool(TRUE), reason |-> JStr(Text_NoSql)])],
      [text |-> Doc_StrYes_Text,
       value |-> JObject([k \in {"judgment"} |-> JStr(Text_yes)])],
      [text |-> Doc_StrTrue_Text,
       value |-> JObject([k \in {"judgment"} |-> JStr(Text_true)])],
      [text |-> Doc_StrOne_Text,
       value |-> JObject([k \in {"judgment"} |-> JStr(<<"1">>)])],
      [text |-> Doc_StrNo_Text,
       value |-> JObject([k \in {"judgment"} |-> JStr(Text_no)])],
      [text |-> Doc_StrFalse_Text,
       value |-> JObject([k \in {"judgment"} |-> JStr(Text_false)])],
      [text |-> Doc_StrZero_Text,
       value |-> JObject([k \in {"judgment"} |-> JStr(<<"0">>)])],
      [text |-> Doc_StrYES_Text,
       value |-> JObject([k \in {"judgment"} |-> JStr(Text_YES)])],
      [text |-> Doc_Detected_Text,
       value |-> JObject([k \in {"detected"} |-> JBool(TRUE)])],
      [text |-> Doc_BareTrue_Text,
       value |-> JBool(TRUE)],
      [text |-> Doc_Array_Text,
       value |-> JArray],
      [text |-> Doc_Focus_Text,
       value |-> JObject([focus |-> JStr(Text_null_check),
                          explanation |-> JStr(Text_UsedBefore)])],
      [text |-> Doc_NoFocus_Text,
       value |-> JObject([k \in {"explanation"} |-> JStr(Text_unclear)])] }

\* json.loads: surrounding whitespace is skipped; ok is false where it raises
json_loads(text) ==
    LET hits == {d \in JsonDocuments : d.text = strip(text)}
    IN  IF hits = {} THEN [ok |-> FALSE, value |-> JNull]
        ELSE [ok |-> TRUE, value |-> (CHOOSE d \in hits : TRUE).value]

\* dict.get(key, default)
Get(data, key, default) ==
    IF key \in DOMAIN data.val THEN data.val[key] ELSE default

\* bool(value)
Truthy(value) ==
    CASE value.type = "null" -> FALSE
      [] value.type = "bool" -> value.val
      [] value.type = "str" -> value.val # <<>>
      [] value.type = "array" -> value.val # <<>>
      [] value.type = "object" -> DOMAIN value.val # {}

(* ---------------- eval_service: the external API ---------------- *)
\* what chat.completions.create hands back: the reply's content
Replies ==
    {d.text : d \in JsonDocuments} \cup
    { Reply_Fenced, Reply_YesSentence, Reply_YesFenced,
      Reply_No, Reply_NoSentence, Reply_QuestionMarks,
      Reply_Empty, Reply_CannotTell, Reply_NoYes,
      Reply_LongGarbage }

\* the outcomes of one call: it raises error, or it returns content
ApiOutcomes ==
    {[raises |-> TRUE, error |-> Text_timeout, content |-> <<>>]} \cup
    {[raises |-> FALSE, error |-> <<>>, content |-> r] : r \in Replies}

NoCall == [op |-> "none"]
NoResult == [op |-> "none"]

(* ---------------- eval_service: the judges ---------------- *)
\* _parse_judge_response (lines 187-213): (detected, reason); the text the
\* fallback reads is the one the try block left behind
parse_judge_response(response_text) ==
    LET stripped == lower(strip(response_text))
        inner == split_1(stripped, Text_Fence)
        text == IF Contains(stripped, Text_Fence)
                THEN (IF startswith(inner, Text_json) THEN From(inner, 4) ELSE inner)
                ELSE stripped
        loaded == json_loads(text)
        data == loaded.value
    IN  IF loaded.ok /\ data.type = "object"
        THEN [detected |-> Truthy(Get(data, "judgment",
                                      Get(data, "detected", JBool(FALSE)))),
              reason |-> Get(data, "reason", Get(data, "explanation", JNull))]
        ELSE IF startswith(text, Text_yes) \/ Contains(Slice(text, 20), Text_yes)
        THEN [detected |-> TRUE, reason |-> JNull]
        ELSE IF startswith(text, Text_no) \/ Contains(Slice(text, 20), Text_no)
        THEN [detected |-> FALSE,
              reason |-> IF Len(response_text) > 10 THEN JStr(response_text)
                         ELSE JNull]
        ELSE [detected |-> FALSE,
              reason |-> JStr(Text_CouldNotParse \o Slice(response_text, 100))]

\* JudgeResult(detected=False, reason=f"Judge error: {str(e)}")
JudgeError(op, o) ==
    [op |-> op, raised |-> FALSE, detected |-> FALSE,
     reason |-> JStr(Text_JudgeError \o o.error)]

\* judge_critical_detection (lines 240-250) on the outcome o of its API call
judge_critical_detection(o) ==
    IF o.raises THEN JudgeError("judge_critical_detection", o)
    ELSE LET parsed == parse_judge_response(o.content)
         IN  [op |-> "judge_critical_detection", raised |-> FALSE,
              detected |-> parsed.detected,
              reason |-> IF ~parsed.detected THEN parsed.reason ELSE JNull]

\* variant: the hallucination judge hands on whatever reason was parsed
judge_hallucination_KeepsReason(o) ==
    IF o.raises THEN JudgeError("judge_hallucination", o)
    ELSE LET parsed == parse_judge_response(o.content)
         IN  [op |-> "judge_hallucination", raised |-> FALSE,
              detected |-> parsed.detected, reason |-> parsed.reason]

\* judge_hallucination (lines 274-284)
judge_hallucination(o) ==
    IF o.raises THEN JudgeError("judge_hallucination", o)
    ELSE LET parsed == parse_judge_response(o.content)
         IN  [op |-> "judge_hallucination", raised |-> FALSE,
              detected |-> parsed.detected,
              reason |-> IF parsed.detected THEN parsed.reason ELSE JNull]

\* judge_helpfulness (lines 302-312)
judge_helpfulness(o) ==
    IF o.raises THEN JudgeError("judge_helpfulness", o)
    ELSE LET parsed == parse_judge_response(o.content)
         IN  [op |-> "judge_helpfulness", raised |-> FALSE,
              detected |-> parsed.detected,
              reason |-> IF ~parsed.detected THEN parsed.reason ELSE JNull]

(* ---------------- eval_service: the focus generator ---------------- *)
\* the except branch of generate_expected_focus (lines 157-161)
FocusFallback(message) ==
    [op |-> "generate_expected_focus", raised |-> FALSE,
     focus |-> JStr(Text_code_quality),
     explanation |-> JStr(Text_CouldNotAnalyze \o message)]

\* str(e) of the error json.loads or data.get raises
Text_ParseError ==
    <<"n", "o", "t", " ", "a", " ", "J", "S", "O", "N", " ", "o", "b", "j", "e",
      "c", "t">>

\* variant: only the reply's parsing is guarded, the API call is not
generate_expected_focus_UnguardedCall(o) ==
    IF o.raises
    THEN [op |-> "generate_expected_focus", raised |-> TRUE,
          focus |-> JNull, explanation |-> JNull]
    ELSE LET inner == split_1(o.content, Text_Fence)
             text == IF Contains(o.content, Text_Fence)
                     THEN (IF startswith(inner, Text_json) THEN From(inner, 4)
                           ELSE inner)
                     ELSE o.content
             loaded == json_loads(strip(text))
             data == loaded.value
         IN  IF loaded.ok /\ data.type = "object"
             THEN [op |-> "generate_expected_focus", raised |-> FALSE,
                   focus |-> Get(data, "focus", JStr(Text_code_quality)),
                   explanation |-> Get(data, "explanation",
                                       JStr(Text_GeneralCodeReview))]
             ELSE FocusFallback(Text_ParseError)

\* generate_expected_focus (lines 138-161) on the outcome o of its API call
generate_expected_focus(o) ==
    IF o.raises THEN FocusFallback(o.error)
    ELSE LET inner == split_1(o.content, Text_Fence)
             text == IF Contains(o.content, Text_Fence)
                     THEN (IF startswith(inner, Text_json) THEN From(inner, 4)
                           ELSE inner)
                     ELSE o.content
             loaded == json_loads(strip(text))
             data == loaded.value
         IN  IF loaded.ok /\ data.type = "object"
             THEN [op |-> "generate_expected_focus", raised |-> FALSE,
                   focus |-> Get(data, "focus", JStr(Text_code_quality)),
                   explanation |-> Get(data, "explanation",
                                       JStr(Text_GeneralCodeReview))]
             ELSE FocusFallback(Text_ParseError)

(* ---------------- eval_service: calls observed one at a time ---------------- *)
\* the API produces the outcome of the next call
ApiAnswers ==
    /\ \E o \in ApiOutcomes : service_call' = [op |-> "answer", outcome |-> o]
    /\ service_result' = NoResult
    /\ UNCHANGED <<now, client, dataset, global_vars, repo_vars, response, twin>>

\* a service function consumes the outcome and returns
Returns(result) ==
    /\ service_call.op = "answer"
    /\ service_result = NoResult
    /\ service_result' = result
    /\ UNCHANGED <<now, client, dataset, global_vars, repo_vars, response,
                   service_call, twin>>

JudgeCriticalDetection == Returns(judge_critical_detection(service_call.outcome))
JudgeHallucination == Returns(judge_hallucination(service_call.outcome))
JudgeHelpfulness == Returns(judge_helpfulness(service_call.outcome))
GenerateExpectedFocus == Returns(generate_expected_focus(service_call.outcome))

ServiceNext ==
    \/ ApiAnswers
    \/ JudgeCriticalDetection
    \/ JudgeHallucination
    \/ JudgeHelpfulness
    \/ GenerateExpectedFocus

ServiceSpec == Init /\ [][ServiceNext]_vars

(* ---------------- a run and the same run with one failed call ---------------- *)
\* item-list sizes of the compared runs
TwinSizes == 1..(MaxItems + 1)

\* the services answer an item favourably or unfavourably
Favourable == [review |-> Review_ok, critical |-> TRUE, hallucinated |-> FALSE,
               helpful |-> TRUE, raises |-> FALSE]
Unfavourable == [review |-> Review_ok, critical |-> FALSE, hallucinated |-> TRUE,
                 helpful |-> FALSE, raises |-> FALSE]

\* the answers of a run in which every call succeeds: item k is answered
\* alike in every combination
TwinAnswers(n) ==
    {[c \in 1..(Len(Models) * Len(SYSTEM_PROMPTS)) |-> [k \in 1..n |-> item[k]]] :
        item \in [1..n -> {Favourable, Unfavourable}]}

\* what the services answer for an item answered o when the call of
\* `service` fails instead: a failed candidate call returns the error-marked
\* string, which the judges then judge in whatever way; a failed judge call
\* returns detected=False, and the other judges, whose inputs are the same,
\* answer as before
FailedOutcomes(o, service) ==
    CASE service = "run_candidate_model" ->
             {[review |-> Review_Error, critical |-> c, hallucinated |-> h, helpful |-> p,
               raises |-> FALSE] : c \in BOOLEAN, h \in BOOLEAN, p \in BOOLEAN}
      [] service = "judge_critical_detection" -> {[o EXCEPT !.critical = FALSE]}
      [] service = "judge_hallucination" -> {[o EXCEPT !.hallucinated = FALSE]}
      [] service = "judge_helpfulness" -> {[o EXCEPT !.helpful = FALSE]}

\* the world of a mode right after an accepted start at time 1
G_accepted(n) ==
    [st |-> add_logs(GlobalFreshStatus(Len(Models) * Len(SYSTEM_PROMPTS), n), 1,
                     <<"Starting", "Models", "Dataset", "Estimated">>),
     t |-> TaskRecord("scheduled"),
     cache |-> EmptyDict]
R_accepted(items) ==
    [st |-> add_logs(RepoFreshStatus(Len(Models) * Len(SYSTEM_PROMPTS), Len(items)), 1,
                     <<"Starting", "Models", "PRs">>),
     t |-> [TaskRecord("scheduled") EXCEPT !.prs = items],
     cache |-> [k \in {"prs"} |-> items]]

\* Two runs of one mode over the same n items, accepted at time 1.  In the
\* first every external call succeeds; the second is the same run except
\* that one call, of `service` for item k of combination c, fails.
TwinInit ==
    /\ now = 1
    /\ service_call = [op |-> "none"]
    /\ service_result = [op |-> "none"]
    /\ client \in {"global", "repo"}
    /\ response = Response("start", client, "started", Len(Models) * Len(SYSTEM_PROMPTS))
    /\ \E n \in TwinSizes :
       \E items \in {[k \in 1..n |-> [id |-> k]]} :
       \E answers \in TwinAnswers(n) :
       \E c \in 1..(Len(Models) * Len(SYSTEM_PROMPTS)), k \in 1..n :
       \E service \in {"run_candidate_model", "judge_critical_detection",
                       "judge_hallucination", "judge_helpfulness"} :
       \E failed \in FailedOutcomes(answers[c][k], service) :
          /\ dataset = items
          /\ eval_status = IF client = "global" THEN G_accepted(n).st ELSE InitialStatus
          /\ eval_results_cache = EmptyDict
          /\ global_tasks = IF client = "global" THEN <<G_accepted(n).t>> ELSE <<>>
          /\ repo_eval_status = IF client = "repo" THEN R_accepted(items).st
                                ELSE InitialStatus
          /\ repo_eval_results_cache = IF client = "repo" THEN R_accepted(items).cache
                                       ELSE EmptyDict
          /\ repo_tasks = IF client = "repo" THEN <<R_accepted(items).t>> ELSE <<>>
          /\ twin = [w |-> IF client = "global" THEN G_accepted(n) ELSE R_accepted(items),
                     answers |-> answers,
                     failed_answers |-> [answers EXCEPT ![c][k] = failed],
                     combination |-> c, item |-> k, service |-> service]

\* both global walks resume once, each with its own run's answers
TwinGlobalWalk ==
    /\ client = "global"
    /\ Live(global_tasks[1])
    /\ \E w \in {G_resume(GlobalWorld(1), 1,
                          twin.answers[global_tasks[1].current + 1][global_tasks[1].pr_idx],
                          FALSE)} :
       \E v \in {G_resume(twin.w, 1,
                          twin.failed_answers[twin.w.t.current + 1][twin.w.t.pr_idx],
                          FALSE)} :
          /\ eval_status' = w.st
          /\ eval_results_cache' = w.cache
          /\ global_tasks' = <<w.t>>
          /\ twin' = [twin EXCEPT !.w = v]
    /\ UNCHANGED <<now, client, dataset, service_vars, repo_vars, response>>

\* both repo walks resume once, each with its own run's answers
TwinRepoWalk ==
    /\ client = "repo"
    /\ Live(repo_tasks[1])
    /\ \E w \in {R_resume(RepoWorld(1), 1,
                          twin.answers[repo_tasks[1].current + 1][repo_tasks[1].pr_idx],
                          FALSE)} :
       \E v \in {R_resume(twin.w, 1,
                          twin.failed_answers[twin.w.t.current + 1][twin.w.t.pr_idx],
                          FALSE)} :
          /\ repo_eval_status' = w.st
          /\ repo_eval_results_cache' = w.cache
          /\ repo_tasks' = <<w.t>>
          /\ twin' = [twin EXCEPT !.w = v]
    /\ UNCHANGED <<now, client, dataset, service_vars, global_vars, response>>

TwinNext ==
    \/ TwinGlobalWalk
    \/ TwinRepoWalk

TwinSpec == TwinInit /\ [][TwinNext]_vars

(* ---------------- the record of one item ---------------- *)
\* a text of n characters
Filler(n) == [k \in 1..n |-> "x"]

\* the lengths of the reviews: none, short, and around the cap
ReviewLengths ==
    {0, 5, 80, ReviewCap - 1, ReviewCap, ReviewCap + 1, ReviewCap + 3, 2 * ReviewCap}

\* what the candidate call returns, as run_candidate_model hands it over:
\* a review, or an error-marked string, of each length
Reviews ==
    {Filler(n) : n \in ReviewLengths}
       \cup {Review_Error \o Filler(n - Len(Review_Error)) :
                n \in {m \in ReviewLengths : m >= Len(Review_Error)}}

\* evaluate_single_pr's dict for an item (eval_service.py lines 322-331)
evaluate_single_pr(pr_id, review, critical_detected, hallucinated, helpful) ==
    [pr_id |-> pr_id, review |-> stored_review(review),
     critical_detected |-> critical_detected, hallucinated |-> hallucinated,
     helpful |-> helpful]

\* the candidate model and the judges have answered for an item
ItemJudged ==
    /\ \E review \in Reviews, c \in BOOLEAN, h \in BOOLEAN, p \in BOOLEAN :
          service_call' = [op |-> "item", pr_id |-> 1, review |-> review,
                           critical_detected |-> c, hallucinated |-> h, helpful |-> p]
    /\ service_result' = [op |-> "none"]
    /\ UNCHANGED <<now, client, dataset, global_vars, repo_vars, response, twin>>

\* the item's record is built by `build`
Builds(op, item) ==
    /\ service_call.op = "item"
    /\ service_result.op = "none"
    /\ service_result' = [op |-> op, item |-> item]
    /\ UNCHANGED <<now, client, dataset, global_vars, repo_vars, response,
                   service_call, twin>>

GlobalItemResult ==
    Builds("run_evaluation_task",
           G_item_result(service_call.pr_id, service_call.review,
                         service_call.critical_detected, service_call.hallucinated,
                         service_call.helpful))
RepoItemResult ==
    Builds("run_repo_evaluation_task",
           R_item_result(service_call.pr_id, service_call.review,
                         service_call.critical_detected, service_call.hallucinated,
                         service_call.helpful))
EvaluateSinglePr ==
    Builds("evaluate_single_pr",
           evaluate_single_pr(service_call.pr_id, service_call.review,
                              service_call.critical_detected, service_call.hallucinated,
                              service_call.helpful))

ItemNext ==
    \/ ItemJudged
    \/ GlobalItemResult
    \/ RepoItemResult
    \/ EvaluateSinglePr

ItemSpec == Init /\ [][ItemNext]_vars

(* ---------------- both modes driven at once ---------------- *)
\* a resumption of the global walk in which no print raises
QuietGlobalWalk ==
    \E i \in DOMAIN global_tasks :
        \/ G_begin(i)
        \/ G_after173(i, FALSE)
        \/ G_after193(i)
        \/ G_after209(i)
        \/ G_after222(i)
        \/ G_after235(i, FALSE)

\* a resumption of the repo walk in which no print raises
QuietRepoWalk ==
    \E i \in DOMAIN repo_tasks :
        \/ R_begin(i)
        \/ R_after513(i, FALSE)
        \/ R_after530(i)
        \/ R_after539(i)
        \/ R_after549(i)
        \/ R_after559(i, FALSE)

\* The endpoints of both modes are called in one behaviour and both walks
\* run, interleaved at their awaits; every candidate call succeeds and no
\* print raises.
BothNext ==
    \/ start_global_eval
    \/ start_repo_eval
    \/ QuietGlobalWalk /\ CandidateCallsSucceed'
    \/ QuietRepoWalk /\ CandidateCallsSucceed'

BothSpec == Init /\ [][BothNext]_vars

(* ======================= properties ======================= *)
\* the walks of a mode that have been scheduled and have not ended
LiveWalks(tasks) == {i \in DOMAIN tasks : Live(tasks[i])}

\* the start handler of a mode takes the accepting branch in this step
GlobalStartAccepted == start_global_eval /\ ~GlobalStartRejected
RepoStartAccepted == start_repo_eval /\ ~RepoStartRejected

TotalCombinations == Len(Models) * Len(SYSTEM_PROMPTS)

\* C1 (single-flight): in each mode at most one background walk is live
\* before and after every step, and no step schedules a walk of a mode while
\* that mode's running flag is true.
C1_SingleFlight ==
    [][/\ Cardinality(LiveWalks(global_tasks)) <= 1
       /\ Cardinality(LiveWalks(global_tasks')) <= 1
       /\ Cardinality(LiveWalks(repo_tasks)) <= 1
       /\ Cardinality(LiveWalks(repo_tasks')) <= 1
       /\ eval_status.running => Len(global_tasks') = Len(global_tasks)
       /\ repo_eval_status.running => Len(repo_tasks') = Len(repo_tasks)]_vars

\* a start was turned down while the second accepted run's walk is the one live walk
C1_Witness ==
    /\ response.op = "start" /\ response.status = "conflict"
    /\ Len(global_tasks) = 2
    /\ LiveWalks(global_tasks) = {2}

\* C2: a start request that finds the mode's running flag set answers
\* "conflict" and changes neither the RunState, nor the results cache, nor
\* the scheduled walks of that mode.
C2_RejectedStartChangesNothing ==
    [][/\ (start_global_eval /\ eval_status.running) =>
             /\ response'.status = "conflict"
             /\ UNCHANGED <<eval_status, eval_results_cache, global_tasks>>
       /\ (start_repo_eval /\ repo_eval_status.running) =>
             /\ response'.status = "conflict"
             /\ UNCHANGED <<repo_eval_status, repo_eval_results_cache, repo_tasks>>]_vars

\* a repo start was turned down in the middle of a run that has made progress
C2_Witness ==
    /\ response.op = "start" /\ response.mode = "repo" /\ response.status = "conflict"
    /\ repo_eval_status.running
    /\ repo_eval_status.progress > 0
    /\ repo_eval_status.sub_progress > 0

\* C3: an accepted start leaves running=true, progress=0, total=|models| x
\* |prompts|, a log buffer holding only entries of the new run, a results
\* cache without results; it answers "started" with total_combinations=total
\* and has scheduled one more walk, which has not taken a step.
C3_AcceptedStartResets ==
    [][/\ GlobalStartAccepted =>
             /\ eval_status'.running /\ eval_status'.progress = 0
             /\ eval_status'.total = TotalCombinations
             /\ \A k \in DOMAIN eval_status'.logs :
                    eval_status'.logs[k].run = Len(global_tasks')
             /\ "results" \notin DOMAIN eval_results_cache'
             /\ response' = Response("start", "global", "started", eval_status'.total)
             /\ Len(global_tasks') = Len(global_tasks) + 1
             /\ global_tasks'[Len(global_tasks')].pc = "scheduled"
       /\ RepoStartAccepted =>
             /\ repo_eval_status'.running /\ repo_eval_status'.progress = 0
             /\ repo_eval_status'.total = TotalCombinations
             /\ \A k \in DOMAIN repo_eval_status'.logs :
                    repo_eval_status'.logs[k].run = Len(repo_tasks')
             /\ "results" \notin DOMAIN repo_eval_results_cache'
             /\ response' = Response("start", "repo", "started", repo_eval_status'.total)
             /\ Len(repo_tasks') = Len(repo_tasks) + 1
             /\ repo_tasks'[Len(repo_tasks')].pc = "scheduled"]_vars

\* the second global run has just been accepted, after a run that filled the
\* log buffer and the cache
C3_Witness ==
    /\ response = Response("start", "global", "started", TotalCombinations)
    /\ Len(global_tasks) = 2
    /\ global_tasks[1].pc = "done"
    /\ global_tasks[2].pc = "scheduled"
    /\ Len(eval_status.logs) = 4

\* the states poll_status reports as complete
GlobalComplete == ~eval_status.running /\ "results" \in DOMAIN eval_results_cache
RepoComplete == ~repo_eval_status.running /\ "results" \in DOMAIN repo_eval_results_cache

\* C4: every accepted run eventually reaches complete (running=false with a
\* published result list), whatever the external calls answer and also when
\* the item loop of a combination raises.
C4_RunReachesComplete ==
    /\ eval_status.running ~> GlobalComplete
    /\ repo_eval_status.running ~> RepoComplete

\* the step of walk i in which the item loop of the current combination raises
GlobalItemLoopRaises(i) ==
    \/ G_after173(i, TRUE) /\ dataset # <<>>
    \/ G_after173(i, FALSE) /\ dataset = <<>>
    \/ G_after235(i, TRUE) /\ global_tasks[i].pr_idx < Len(dataset)

RepoItemLoopRaises(i) ==
    \/ R_after513(i, TRUE) /\ repo_tasks[i].prs # <<>>
    \/ R_after559(i, TRUE) /\ repo_tasks[i].pr_idx < Len(repo_tasks[i].prs)

\* the (0, 1, 0) result with passed=false and an error detail
GlobalSentinel(r) ==
    /\ r.critical_detection_rate = Zero /\ r.hallucination_rate = One
    /\ r.helpfulness_rate = Zero /\ ~r.passed
    /\ Len(r.details) = 1 /\ "error" \in DOMAIN r.details[1]

RepoSentinel(r) ==
    /\ r.criticalDetectionRate = Zero /\ r.hallucinationRate = One
    /\ r.helpfulnessRate = Zero /\ ~r.passed
    /\ Len(r.details) = 1 /\ "error" \in DOMAIN r.details[1]

\* C5: when the item loop of a combination raises, the walk records the
\* sentinel result for that combination, advances progress by one and goes
\* on with the next combination (or publishes, after the last one).
C5_RaisingCombinationGetsSentinel ==
    [][/\ \A i \in DOMAIN global_tasks : GlobalItemLoopRaises(i) =>
             LET after == IF global_tasks'[i].pc = "done"
                          THEN eval_results_cache'["results"]
                          ELSE global_tasks'[i].results
             IN  /\ global_tasks'[i].pc \in {"at173", "done"}
                 /\ Len(after) = Len(global_tasks[i].results) + 1
                 /\ GlobalSentinel(after[Len(after)])
                 /\ eval_status'.progress = eval_status.progress + 1
       /\ \A i \in DOMAIN repo_tasks : RepoItemLoopRaises(i) =>
             /\ repo_tasks'[i].pc \in {"at513", "done"}
             /\ repo_eval_status'.progress = repo_eval_status.progress + 1
             /\ LET after == IF repo_tasks'[i].pc = "done"
                             THEN repo_eval_results_cache'["results"]
                             ELSE repo_tasks'[i].results
                IN  /\ Len(after) = Len(repo_tasks[i].results) + 1
                    /\ \E k \in DOMAIN after :
                          /\ after[k].model = Models[repo_tasks[i].model_idx]
                          /\ after[k].promptId = SYSTEM_PROMPTS[repo_tasks[i].prompt_idx]
                          /\ RepoSentinel(after[k])]_vars

\* every (model, prompt) pair
Combinations == {<<Models[mi], SYSTEM_PROMPTS[pi]>> :
                    mi \in DOMAIN Models, pi \in DOMAIN SYSTEM_PROMPTS}

\* C6: the step that clears running leaves progress = total and the cache
\* holding |models| x |prompts| results, one for each (model, prompt) pair.
C6_CompletePublishesFullList ==
    [][/\ (eval_status.running /\ ~eval_status'.running) =>
             /\ eval_status'.progress = eval_status'.total
             /\ "results" \in DOMAIN eval_results_cache'
             /\ LET rs == eval_results_cache'["results"]
                IN  /\ Len(rs) = TotalCombinations
                    /\ {<<rs[k].model, rs[k].prompt_id>> : k \in DOMAIN rs} = Combinations
       /\ (repo_eval_status.running /\ ~repo_eval_status'.running) =>
             /\ repo_eval_status'.progress = repo_eval_status'.total
             /\ "results" \in DOMAIN repo_eval_results_cache'
             /\ LET rs == repo_eval_results_cache'["results"]
                IN  /\ Len(rs) = TotalCombinations
                    /\ {<<rs[k].model, rs[k].promptId>> : k \in DOMAIN rs} = Combinations]_vars

\* a global run is complete in which one combination raised and another did not
C6_Witness ==
    /\ GlobalComplete
    /\ eval_status.progress = TotalCombinations
    /\ \E k \in DOMAIN eval_results_cache["results"] :
          GlobalSentinel(eval_results_cache["results"][k])
    /\ \E k \in DOMAIN eval_results_cache["results"] :
          eval_results_cache["results"][k].passed

\* C7: once the walk of a run has ended, the next start of that mode is
\* accepted; no state refuses starts for ever.
C7_StartAcceptedAfterRunEnded ==
    [][/\ (start_global_eval /\ global_tasks # <<>> /\ LiveWalks(global_tasks) = {}) =>
             response'.status = "started"
       /\ (start_repo_eval /\ repo_tasks # <<>> /\ LiveWalks(repo_tasks) = {}) =>
             response'.status = "started"]_vars

\* 0 <= progress <= total in a status dict
ProgressInRange(st) == 0 <= st.progress /\ st.progress <= st.total

\* C8: 0 <= progress <= total before and after every step, and progress never
\* decreases in a step other than an accepted start.
C8_ProgressBoundedMonotone ==
    [][/\ ProgressInRange(eval_status) /\ ProgressInRange(eval_status')
       /\ ProgressInRange(repo_eval_status) /\ ProgressInRange(repo_eval_status')
       /\ ~GlobalStartAccepted => eval_status'.progress >= eval_status.progress
       /\ ~RepoStartAccepted =>
             repo_eval_status'.progress >= repo_eval_status.progress]_vars

\* a global walk between its second and its third combination
C8_Witness ==
    /\ eval_status.running
    /\ eval_status.progress = 2
    /\ eval_status.current_model = Models[2]

\* C9 as claimed: within one run sub_progress never decreases from one
\* observable state to the next.
C9_SubProgressMonotoneInRun ==
    [][/\ ~GlobalStartAccepted => eval_status'.sub_progress >= eval_status.sub_progress
       /\ ~RepoStartAccepted =>
             repo_eval_status'.sub_progress >= repo_eval_status.sub_progress]_vars

\* C9 amended: within one combination of a run, that is as long as progress
\* keeps its value, sub_progress never decreases.
C9_SubProgressMonotoneInCombination ==
    [][/\ (~GlobalStartAccepted /\ eval_status'.progress = eval_status.progress) =>
             eval_status'.sub_progress >= eval_status.sub_progress
       /\ (~RepoStartAccepted /\ repo_eval_status'.progress = repo_eval_status.progress) =>
             repo_eval_status'.sub_progress >= repo_eval_status.sub_progress]_vars

\* a repo walk has counted an item of its second combination, after the
\* counter went back to 0
C9_Witness ==
    /\ repo_eval_status.running
    /\ repo_eval_status.progress = 1
    /\ repo_eval_status.sub_progress = 1

\* C10: with an empty item list every published result has its three rates
\* equal to 0 and records no error.
C10_EmptyListGivesZeroRates ==
    /\ (dataset = <<>> /\ "results" \in DOMAIN eval_results_cache) =>
          \A k \in DOMAIN eval_results_cache["results"] :
             LET r == eval_results_cache["results"][k]
             IN  /\ r.critical_detection_rate.num = 0
                 /\ r.hallucination_rate.num = 0
                 /\ r.helpfulness_rate.num = 0
                 /\ r.details = <<>>
    /\ ("results" \in DOMAIN repo_eval_results_cache
          /\ repo_eval_results_cache["prs"] = <<>>) =>
          \A k \in DOMAIN repo_eval_results_cache["results"] :
             LET r == repo_eval_results_cache["results"][k]
             IN  /\ r.criticalDetectionRate.num = 0
                 /\ r.hallucinationRate.num = 0
                 /\ r.helpfulnessRate.num = 0
                 /\ r.details = <<>>

\* the elements of a sequence
Range(seq) == {seq[k] : k \in DOMAIN seq}

\* every CombinationResult of a mode: those its walks hold and those published
GlobalCombinationResults ==
    UNION {Range(global_tasks[i].results) : i \in DOMAIN global_tasks}
       \cup (IF "results" \in DOMAIN eval_results_cache
             THEN Range(eval_results_cache["results"]) ELSE {})

RepoCombinationResults ==
    UNION {Range(repo_tasks[i].results) : i \in DOMAIN repo_tasks}
       \cup (IF "results" \in DOMAIN repo_eval_results_cache
             THEN Range(repo_eval_results_cache["results"]) ELSE {})

\* a rate compared with a decimal given in hundredths
AtLeast(rate, hundredths) == 100 * rate.num >= hundredths * rate.den
AtMost(rate, hundredths) == 100 * rate.num <= hundredths * rate.den

C12_VerdictIsThreshold ==
    \A r \in RepoCombinationResults :
        r.verdict = IF AtLeast(r.criticalDetectionRate, 80) /\ AtMost(r.hallucinationRate, 15)
                    THEN "Recommended"
                    ELSE IF r.passed THEN "Acceptable" ELSE "Rejected"

\* a published repo result with rates of exactly 0.8 (16 of 20) and 0.15
\* (3 of 20) is "Recommended"
C12_Witness ==
    /\ RepoComplete
    /\ \E r \in Range(repo_eval_results_cache["results"]) :
          /\ r.criticalDetectionRate = Rate(16, 20)
          /\ r.hallucinationRate = Rate(3, 20)
          /\ r.verdict = "Recommended"

\* C13: the published repo results are ordered by critical rate descending,
\* then hallucination rate ascending, and entry k of the list has rank k.
C13_PublishedOrderAndRanks ==
    "results" \in DOMAIN repo_eval_results_cache =>
        LET rs == repo_eval_results_cache["results"]
        IN  /\ \A a, b \in DOMAIN rs : a < b =>
                  \/ RateLess(rs[b].criticalDetectionRate, rs[a].criticalDetectionRate)
                  \/ /\ ~RateLess(rs[a].criticalDetectionRate, rs[b].criticalDetectionRate)
                     /\ ~RateLess(rs[b].hallucinationRate, rs[a].hallucinationRate)
            /\ \A k \in DOMAIN rs : rs[k].rank = k

\* a published list led by the combination processed last, with two entries
\* of equal critical rate and different hallucination rates
C13_Witness ==
    /\ RepoComplete
    /\ LET rs == repo_eval_results_cache["results"]
       IN  /\ rs[1].model = Models[Len(Models)]
           /\ rs[1].promptId = SYSTEM_PROMPTS[Len(SYSTEM_PROMPTS)]
           /\ \E k \in 1..(Len(rs) - 1) :
                 /\ rs[k].criticalDetectionRate = rs[k + 1].criticalDetectionRate
                 /\ RateLess(rs[k].hallucinationRate, rs[k + 1].hallucinationRate)

\* the number of entries of details whose field is true
Detected(details, field) == Cardinality({k \in DOMAIN details : details[k][field]})

\* the rate is the share of the entries of details whose field is true (0 for
\* an empty list)
IsShare(rate, details, field) ==
    IF details = <<>> THEN rate.num = 0 /\ rate.den = 1
    ELSE rate.num = Detected(details, field) /\ rate.den = Len(details)

InUnitInterval(rate) == rate.den > 0 /\ 0 <= rate.num /\ rate.num <= rate.den

\* details is the error record of a sentinel result
IsErrorDetails(details) == Len(details) = 1 /\ "error" \in DOMAIN details[1]

\* C14: every rate of every CombinationResult is in [0,1]; a sentinel carries
\* only the rates 0 and 1, and any other result has each rate equal to the
\* number of its ItemResults whose flag is true over the number of its
\* ItemResults.
C14_RatesAreShares ==
    /\ \A r \in GlobalCombinationResults :
          /\ InUnitInterval(r.critical_detection_rate)
          /\ InUnitInterval(r.hallucination_rate)
          /\ InUnitInterval(r.helpfulness_rate)
          /\ IF IsErrorDetails(r.details)
             THEN {r.critical_detection_rate, r.hallucination_rate, r.helpfulness_rate}
                     \subseteq {Zero, One}
             ELSE /\ IsShare(r.critical_detection_rate, r.details, "critical_detected")
                  /\ IsShare(r.hallucination_rate, r.details, "hallucinated")
                  /\ IsShare(r.helpfulness_rate, r.details, "helpful")
    /\ \A r \in RepoCombinationResults :
          /\ InUnitInterval(r.criticalDetectionRate)
          /\ InUnitInterval(r.hallucinationRate)
          /\ InUnitInterval(r.helpfulnessRate)
          /\ IsShare(r.criticalDetectionRate, r.details, "critical_detected")
          /\ IsShare(r.hallucinationRate, r.details, "hallucinated")
          /\ IsShare(r.helpfulnessRate, r.details, "helpful")

\* a published global list holds a sentinel and a result whose three rates
\* are strictly between 0 and 1
C14_Witness ==
    /\ GlobalComplete
    /\ \E r \in Range(eval_results_cache["results"]) : IsErrorDetails(r.details)
    /\ \E r \in Range(eval_results_cache["results"]) :
          /\ 0 < r.critical_detection_rate.num
          /\ r.critical_detection_rate.num < r.critical_detection_rate.den
          /\ 0 < r.hallucination_rate.num
          /\ r.hallucination_rate.num < r.hallucination_rate.den
          /\ 0 < r.helpfulness_rate.num
          /\ r.helpfulness_rate.num < r.helpfulness_rate.den

\* new is old with the messages msgs of run appended in order and the oldest
\* entries beyond the capacity dropped
Appended(old, new, run, msgs) ==
    LET all == old \o [k \in DOMAIN msgs |-> [run |-> run, msg |-> msgs[k]]]
    IN  /\ Len(new) = IF Len(all) > LogCapacity THEN LogCapacity ELSE Len(all)
        /\ \A j \in DOMAIN new : new[j] = all[Len(all) - Len(new) + j]

\* what the last step of a global walk logs: lines 253, 271-275, 320-326
GlobalLastMessages ==
    <<"Helpful", "", "Results for", "Critical Detection", "Hallucination Rate",
      "Helpfulness Rate", "Status", "", "=====", "EVALUATION COMPLETE", "=====",
      "Passed", "Filtered", "Total time">>

\* what the last step of a repo walk logs: lines 576, 587, 618-620
RepoLastMessages ==
    <<"Focus detection", "Result", "Evaluation complete!", "Best", "Total time">>

\* C15: no step leaves more than 100 entries in a log buffer, and the steps
\* that append leave the previous buffer followed by their messages in
\* emission order, without its oldest entries when that exceeds 100: the
\* candidate call and the first two judge calls of the global walk (one
\* message each) and the last step of either walk (14 and 5 messages).
C15_LogKeepsNewest ==
    [][/\ Len(eval_status'.logs) <= LogCapacity
       /\ Len(repo_eval_status'.logs) <= LogCapacity
       /\ \A i \in DOMAIN global_tasks :
             /\ G_after193(i) =>
                   \E m \in {"Review generated", "Review error"} :
                       Appended(eval_status.logs, eval_status'.logs, i, <<m>>)
             /\ G_after209(i) =>
                   Appended(eval_status.logs, eval_status'.logs, i, <<"Critical">>)
             /\ G_after222(i) =>
                   Appended(eval_status.logs, eval_status'.logs, i, <<"Hallucination">>)
             /\ (global_tasks[i].pc = "at235" /\ global_tasks'[i].pc = "done") =>
                   Appended(eval_status.logs, eval_status'.logs, i, GlobalLastMessages)
       /\ \A i \in DOMAIN repo_tasks :
             (repo_tasks[i].pc = "at559" /\ repo_tasks'[i].pc = "done") =>
                Appended(repo_eval_status.logs, repo_eval_status'.logs, i,
                         RepoLastMessages)]_vars

\* a repo run of 20 items has ended with a full buffer whose newest entry is
\* the last message of the run and whose oldest is not the first
C15_Witness ==
    /\ RepoComplete
    /\ Len(repo_eval_status.logs) = LogCapacity
    /\ repo_eval_status.logs[LogCapacity].msg = "Total time"
    /\ repo_eval_status.logs[1].msg # "Starting"

\* C16: while a mode is complete its published list keeps its value in every
\* step but an accepted start of that mode, every results request and every
\* status poll of that mode answers "complete" with exactly that list, and
\* an accepted start leaves the cache without results and the new walk not
\* yet started.
C16_ResultsStayUntilNextStart ==
    [][/\ (GlobalComplete /\ ~GlobalStartAccepted) =>
             /\ GlobalComplete'
             /\ eval_results_cache'["results"] = eval_results_cache["results"]
       /\ (GlobalComplete /\ (get_eval_results \/ get_eval_status)) =>
             /\ response'.status = "complete"
             /\ response'.results = eval_results_cache["results"]
       /\ (GlobalComplete /\ GlobalStartAccepted) =>
             /\ "results" \notin DOMAIN eval_results_cache'
             /\ global_tasks'[Len(global_tasks')].pc = "scheduled"
       /\ (RepoComplete /\ ~RepoStartAccepted) =>
             /\ RepoComplete'
             /\ repo_eval_results_cache'["results"] = repo_eval_results_cache["results"]
       /\ (RepoComplete /\ get_repo_eval_status) =>
             /\ response'.status = "complete"
             /\ response'.results = repo_eval_results_cache["results"]
       /\ (RepoComplete /\ RepoStartAccepted) =>
             /\ "results" \notin DOMAIN repo_eval_results_cache'
             /\ repo_tasks'[Len(repo_tasks')].pc = "scheduled"]_vars

\* the list of the second global run is being returned, the first run's list
\* having been cleared when the second start was accepted
C16_Witness ==
    /\ Len(global_tasks) = 2
    /\ GlobalComplete
    /\ response.op = "results"
    /\ response.status = "complete"
    /\ response.results = eval_results_cache["results"]

\* a walk of the global mode has run to its end and published
GlobalEverCompleted == \E i \in DOMAIN global_tasks : global_tasks[i].pc = "done"

\* C17: a results request made while no global run has ever completed (also
\* while the first run is running) answers "not found"; a results request
\* that answers with a list answers with the list a completed run published.
C17_NotFoundBeforeFirstCompletion ==
    [][get_eval_results =>
          /\ ~GlobalEverCompleted =>
                response'.status = "not found" /\ response'.results = <<>>
          /\ response'.status # "not found" =>
                /\ GlobalEverCompleted
                /\ GlobalComplete
                /\ response'.results = eval_results_cache["results"]]_vars

\* the results were asked for while the first global run was between two
\* combinations, and were not found
C17_Witness ==
    /\ response.op = "results"
    /\ response.status = "not found"
    /\ Len(global_tasks) = 1
    /\ eval_status.running
    /\ eval_status.progress > 0

\* the model and the prompt of the k-th combination, models outer, prompts inner
ModelAt(k) == Models[((k - 1) \div Len(SYSTEM_PROMPTS)) + 1]
PromptAt(k) == SYSTEM_PROMPTS[((k - 1) % Len(SYSTEM_PROMPTS)) + 1]

\* every call was made for the combination that follows the results appended
\* by then, and the calls go through the items of a combination in list order
CallsInWalkOrder(calls) ==
    /\ \A k \in DOMAIN calls :
          /\ calls[k].appended < Len(Models) * Len(SYSTEM_PROMPTS)
          /\ calls[k].model = ModelAt(calls[k].appended + 1)
          /\ calls[k].prompt = PromptAt(calls[k].appended + 1)
    /\ \A k \in 1..(Len(calls) - 1) :
          \/ /\ calls[k + 1].appended = calls[k].appended
             /\ calls[k + 1].item \in {calls[k].item, calls[k].item + 1}
          \/ /\ calls[k + 1].appended > calls[k].appended
             /\ calls[k + 1].item = 1

\* C18: a walk makes its calls combination by combination, models outer and
\* prompts inner, none for a combination before the results of all earlier
\* combinations are appended, and item by item in list order; the results it
\* holds, and the list a global run publishes, are in that order.
C18_ModelMajorOrder ==
    /\ \A i \in DOMAIN global_tasks :
          /\ CallsInWalkOrder(global_tasks[i].calls)
          /\ \A k \in DOMAIN global_tasks[i].results :
                /\ global_tasks[i].results[k].model = ModelAt(k)
                /\ global_tasks[i].results[k].prompt_id = PromptAt(k)
    /\ \A i \in DOMAIN repo_tasks :
          /\ CallsInWalkOrder(repo_tasks[i].calls)
          /\ \A k \in DOMAIN repo_tasks[i].results :
                /\ repo_tasks[i].results[k].model = ModelAt(k)
                /\ repo_tasks[i].results[k].promptId = PromptAt(k)
    /\ \A r \in GlobalCombinationResults :
          ~IsErrorDetails(r.details) =>
             \A k \in DOMAIN r.details : r.details[k].pr_id = dataset[k].id
    /\ \A r \in RepoCombinationResults :
          \A k \in DOMAIN r.details :
             r.details[k].pr_id = repo_eval_results_cache["prs"][k].id
    /\ "results" \in DOMAIN eval_results_cache =>
          LET rs == eval_results_cache["results"]
          IN  /\ Len(rs) = Len(Models) * Len(SYSTEM_PROMPTS)
              /\ \A k \in DOMAIN rs :
                    rs[k].model = ModelAt(k) /\ rs[k].prompt_id = PromptAt(k)

\* a global walk over 20 items has made all its calls but the last one
C18_Witness ==
    \E i \in DOMAIN global_tasks :
        /\ global_tasks[i].pc = "at235"
        /\ Len(dataset) = 20
        /\ Len(global_tasks[i].calls) = 4 * 20 * Len(Models) * Len(SYSTEM_PROMPTS) - 1

\* the four services in the order the walks call them for an item
Services == <<"run_candidate_model", "judge_critical_detection",
              "judge_hallucination", "judge_helpfulness">>

\* the calls come in blocks of candidate model, critical, hallucination and
\* helpfulness judge for one (model, prompt, item), every judge being given
\* the review the candidate call of its block returned, and every block is
\* for a later triple than the block before
CallsInBlocks(calls) ==
    /\ \A k \in DOMAIN calls :
          LET first == k - ((k - 1) % Len(Services))
          IN  /\ calls[k].service = Services[k - first + 1]
              /\ calls[k].model = calls[first].model
              /\ calls[k].prompt = calls[first].prompt
              /\ calls[k].item = calls[first].item
              /\ calls[k].review = calls[first].review
    /\ \A k \in 1..(Len(calls) - 1) :
          k % Len(Services) = 0 =>
             \/ calls[k + 1].appended > calls[k].appended
             \/ /\ calls[k + 1].appended = calls[k].appended
                /\ calls[k + 1].item = calls[k].item + 1

\* the calls a walk has made by the end of the step in which it finishes
CallsAtEnd(t) == Len(t.calls) + (IF t.pc \in {"at235", "at559"} THEN 1 ELSE 0)

JudgedErrorText(calls, service) ==
    /\ calls # <<>>
    /\ calls[Len(calls)].service = service
    /\ calls[Len(calls)].review = Review_Error

\* details is the list before with one more entry, for item pr_id
RecordsItem(details, before, pr_id) ==
    /\ Len(details) = Len(before) + 1
    /\ SubSeq(details, 1, Len(before)) = before
    /\ ~IsErrorDetails(details)
    /\ details[Len(details)].pr_id = pr_id

\* C20: after a candidate call that returned an error text the walk calls
\* the three judges with that text, records the item's result (in global mode
\* with the error text as its review) and goes on with the next item, the
\* next combination or the publication.
C20_FailedItemIsJudgedAndRecorded ==
    [][/\ \A i \in DOMAIN global_tasks :
             LET t == global_tasks[i]
                 u == global_tasks'[i]
             IN  /\ (G_after193(i) /\ u.review = Review_Error) => u.pc = "at209"
                 /\ (G_after209(i) /\ t.review = Review_Error) =>
                       u.pc = "at222" /\ JudgedErrorText(u.calls, "judge_critical_detection")
                 /\ (G_after222(i) /\ t.review = Review_Error) =>
                       u.pc = "at235" /\ JudgedErrorText(u.calls, "judge_hallucination")
                 /\ (G_after235(i, FALSE) /\ t.review = Review_Error) =>
                       LET details ==
                              IF u.pc = "at193" THEN u.combination_results
                              ELSE IF u.pc = "at173" THEN u.results[Len(u.results)].details
                              ELSE eval_results_cache'["results"][Len(t.results) + 1].details
                       IN  /\ u.pc \in {"at193", "at173", "done"}
                           /\ u.pc = "at193" => JudgedErrorText(u.calls, "judge_helpfulness")
                           /\ RecordsItem(details, t.combination_results,
                                          dataset[t.pr_idx].id)
                           /\ details[Len(details)].review = Review_Error
       /\ \A i \in DOMAIN repo_tasks :
             LET t == repo_tasks[i]
                 u == repo_tasks'[i]
             IN  /\ (R_after530(i) /\ u.review = Review_Error) => u.pc = "at539"
                 /\ (R_after539(i) /\ t.review = Review_Error) =>
                       u.pc = "at549" /\ JudgedErrorText(u.calls, "judge_critical_detection")
                 /\ (R_after549(i) /\ t.review = Review_Error) =>
                       u.pc = "at559" /\ JudgedErrorText(u.calls, "judge_hallucination")
                 /\ (R_after559(i, FALSE) /\ t.review = Review_Error) =>
                       /\ u.pc \in {"at530", "at513", "done"}
                       /\ u.pc = "at530" => JudgedErrorText(u.calls, "judge_helpfulness")
                       /\ u.pc = "at530" =>
                             RecordsItem(u.combination_results, t.combination_results,
                                         t.prs[t.pr_idx].id)
                       /\ u.pc = "at513" =>
                             RecordsItem(u.results[Len(u.results)].details,
                                         t.combination_results, t.prs[t.pr_idx].id)
                       /\ u.pc = "done" =>
                             \E r \in Range(repo_eval_results_cache'["results"]) :
                                /\ r.model = Models[t.model_idx]
                                /\ r.promptId = SYSTEM_PROMPTS[t.prompt_idx]
                                /\ RecordsItem(r.details, t.combination_results,
                                               t.prs[t.pr_idx].id)]_vars

\* a global run over one item, all of whose candidate calls failed, is
\* complete with four results, each recording the item with the error text
C20_Witness ==
    /\ GlobalComplete
    /\ Len(dataset) = 1
    /\ Len(eval_results_cache["results"]) = 4
    /\ \A r \in Range(eval_results_cache["results"]) :
          /\ Len(r.details) = 1
          /\ "review" \in DOMAIN r.details[1]
          /\ r.details[1].review = Review_Error

(* ---------------- the judges and the focus generator ---------------- *)
Judges == {"judge_critical_detection", "judge_hallucination", "judge_helpfulness"}

\* a judge has returned on the outcome held in service_call
JudgeReturned == service_result.op \in Judges

\* replies that are neither JSON nor an answer in words
Garbage == {Reply_QuestionMarks, Reply_Empty, Reply_LongGarbage}

\* replies without JSON that start with "YES"
YesReplies == {Reply_YesSentence, Reply_YesFenced}

\* a reason or explanation that is a non-empty string
NonEmptyText(value) == value.type = "str" /\ value.val # <<>>

\* C21: a judge that has returned after the API call raised, or on a reply
\* that is garbage, did not raise and returned detected=false with a
\* non-empty reason.
C21_JudgesFailClosed ==
    (JudgeReturned /\ (service_call.outcome.raises
                       \/ service_call.outcome.content \in Garbage))
    => /\ ~service_result.raised
       /\ ~service_result.detected
       /\ NonEmptyText(service_result.reason)

\* C22: whichever judge returned, a reply without JSON that starts with
\* "YES" gave detected=true, and a garbage reply gave detected=false with a
\* non-empty reason.
C22_ParseFallback ==
    (JudgeReturned /\ ~service_call.outcome.raises)
    => /\ service_call.outcome.content \in YesReplies => service_result.detected
       /\ service_call.outcome.content \in Garbage =>
             ~service_result.detected /\ NonEmptyText(service_result.reason)

\* C23: on a JSON reply whose judgment is a string the judge returned
\* detected=true for "yes", "true" and "1" and detected=false for "no",
\* "false" and "0".
C23_StringJudgment ==
    (JudgeReturned /\ ~service_call.outcome.raises)
    => /\ service_call.outcome.content
             \in {Doc_StrYes_Text, Doc_StrTrue_Text, Doc_StrOne_Text}
          => service_result.detected
       /\ service_call.outcome.content
             \in {Doc_StrNo_Text, Doc_StrFalse_Text, Doc_StrZero_Text}
          => ~service_result.detected

NotJsonObject(content) ==
    ~\E d \in JsonDocuments : d.text = strip(content) /\ d.value.type = "object"

\* C29: the focus generator has not raised, and after a raising API call or
\* a reply that is no JSON object it returned "code_quality" with a non-empty
\* explanation.
C29_FocusFallsBack ==
    service_result.op = "generate_expected_focus"
    => /\ ~service_result.raised
       /\ (service_call.outcome.raises
           \/ NotJsonObject(service_call.outcome.content))
          => /\ service_result.focus = JStr(Text_code_quality)
             /\ NonEmptyText(service_result.explanation)

\* the focus generator has returned the fallback after the API call raised
C29_Witness ==
    /\ service_result.op = "generate_expected_focus"
    /\ service_call.outcome.raises
    /\ service_result.focus = JStr(Text_code_quality)
    /\ service_result.explanation = JStr(Text_CouldNotAnalyze \o Text_timeout)

(* ---------------- readers and writers ---------------- *)
\* status st with its elapsed_time replaced by seconds
ButElapsed(st, seconds) == [st EXCEPT !.elapsed_time = seconds]

\* C25 as stated: a status poll or a results request leaves both modes'
\* RunState and results cache unchanged.
C25_RequestsArePureReaders ==
    [][(get_eval_status \/ get_eval_results \/ get_repo_eval_status)
       => UNCHANGED <<eval_status, eval_results_cache,
                      repo_eval_status, repo_eval_results_cache>>]_vars

\* C25: a results request leaves RunState and the results cache unchanged; a
\* status poll leaves the cache and every field of RunState but elapsed_time
\* unchanged, and sets elapsed_time to the clock minus start_time once a run
\* was started; any other change of RunState or of the cache is a step of the
\* walk or an accepted start.
C25_RequestsWriteOnlyElapsedTime ==
    [][/\ get_eval_results => UNCHANGED <<global_vars, repo_vars>>
       /\ get_eval_status =>
             /\ UNCHANGED <<eval_results_cache, global_tasks, repo_vars>>
             /\ eval_status' = ButElapsed(eval_status, eval_status'.elapsed_time)
             /\ eval_status.start_time # None =>
                   eval_status'.elapsed_time = now - eval_status.start_time
       /\ get_repo_eval_status =>
             /\ UNCHANGED <<repo_eval_results_cache, repo_tasks, global_vars>>
             /\ repo_eval_status' =
                   ButElapsed(repo_eval_status, repo_eval_status'.elapsed_time)
             /\ repo_eval_status.start_time # None =>
                   repo_eval_status'.elapsed_time = now - repo_eval_status.start_time
       /\ (\/ eval_results_cache' # eval_results_cache
           \/ eval_status' # ButElapsed(eval_status, eval_status'.elapsed_time))
          => run_evaluation_task \/ GlobalStartAccepted
       /\ (\/ repo_eval_results_cache' # repo_eval_results_cache
           \/ repo_eval_status' #
                 ButElapsed(repo_eval_status, repo_eval_status'.elapsed_time))
          => run_repo_evaluation_task \/ RepoStartAccepted]_vars

\* a poll of a running global run has put a later elapsed_time into RunState
\* than the walk had stored
C25_Witness ==
    /\ response.op = "poll"
    /\ response.mode = "global"
    /\ response.status = "running"
    /\ eval_status.elapsed_time > 0
    /\ response.elapsed_time = <<eval_status.elapsed_time>>
    /\ \E i \in DOMAIN global_tasks : global_tasks[i].pc = "scheduled"

\* C27: start_time changes only at an accepted start, which sets it to the
\* clock; every status poll that answers "running" or "complete" reports
\* the clock minus that start_time as elapsed_time.
C27_ElapsedRecomputedAtPoll ==
    [][/\ GlobalStartAccepted => eval_status'.start_time = now
       /\ eval_status'.start_time # eval_status.start_time => GlobalStartAccepted
       /\ (get_eval_status /\ response'.status \in {"running", "complete"})
          => response'.elapsed_time = <<now - eval_status'.start_time>>
       /\ RepoStartAccepted => repo_eval_status'.start_time = now
       /\ repo_eval_status'.start_time # repo_eval_status.start_time
          => RepoStartAccepted
       /\ (get_repo_eval_status /\ response'.status \in {"running", "complete"})
          => response'.elapsed_time = <<now - repo_eval_status'.start_time>>]_vars

\* a poll of a completed repo run reports more seconds than the walk stored
\* when it finished
C27_Witness ==
    /\ response.op = "poll"
    /\ response.mode = "repo"
    /\ response.status = "complete"
    /\ response.elapsed_time = <<now - repo_eval_status.start_time>>
    /\ now = MaxTime
    /\ repo_eval_status.start_time = 1
    /\ \E r \in Range(repo_eval_results_cache["results"]) : TRUE

\* the combination results a run has produced so far: the published list,
\* or the list the walk is still building
ProducedBy(w) == IF "results" \in DOMAIN w.cache THEN w.cache["results"] ELSE w.t.results

\* the world of the run in which every call succeeded
TwinFirst == IF client = "global" THEN GlobalWorld(1) ELSE RepoWorld(1)

\* the position, in walk order, of the combination a result belongs to
CombinationOf(r) ==
    LET prompt == IF "promptId" \in DOMAIN r THEN r.promptId ELSE r.prompt_id
    IN  CHOOSE c \in 1..TotalCombinations :
            /\ Models[((c - 1) \div Len(SYSTEM_PROMPTS)) + 1] = r.model
            /\ SYSTEM_PROMPTS[((c - 1) % Len(SYSTEM_PROMPTS)) + 1] = prompt

\* the three rates of a combination result
RatesOf(r) ==
    IF "promptId" \in DOMAIN r
    THEN <<r.criticalDetectionRate, r.hallucinationRate, r.helpfulnessRate>>
    ELSE <<r.critical_detection_rate, r.hallucination_rate, r.helpfulness_rate>>

\* |a - b| <= 1/n, and |a - b| = 1/n, for rates a and b
WithinOneItem(a, b, n) ==
    /\ n * (a.num * b.den - b.num * a.den) <= a.den * b.den
    /\ n * (b.num * a.den - a.num * b.den) <= a.den * b.den
OneItemApart(a, b, n) ==
    \/ n * (a.num * b.den - b.num * a.den) = a.den * b.den
    \/ n * (b.num * a.den - a.num * b.den) = a.den * b.den

\* C26 (a failed call stays in its item): compared with the same run in which
\* the call had succeeded, the run with one failed candidate or judge call
\* has, at every point of the walk and in the published list, the same
\* combinations with the same ItemResults for every item other than the one
\* the call belongs to, equal rates in every other combination, and in the
\* affected combination rates that differ by at most 1/n, n the item count.
C26_FailedCallStaysInItsItem ==
    twin # NoTwin =>
        LET first == ProducedBy(TwinFirst)
            second == ProducedBy(twin.w)
            n == Len(dataset)
            building == TwinFirst.t.combination_results
            twin_building == twin.w.t.combination_results
        IN  /\ Len(first) = Len(second)
            /\ \A i \in DOMAIN first : \E j \in DOMAIN second :
                  LET a == first[i]
                      b == second[j]
                      c == CombinationOf(a)
                  IN  /\ CombinationOf(b) = c
                      /\ DOMAIN a.details = DOMAIN b.details
                      /\ \A k \in DOMAIN a.details :
                            (c # twin.combination \/ k # twin.item)
                               => a.details[k] = b.details[k]
                      /\ c # twin.combination => RatesOf(a) = RatesOf(b)
                      /\ \A x \in 1..3 : WithinOneItem(RatesOf(a)[x], RatesOf(b)[x], n)
            /\ DOMAIN building = DOMAIN twin_building
            /\ \A k \in DOMAIN building :
                  (TwinFirst.t.current + 1 # twin.combination \/ k # twin.item)
                     => building[k] = twin_building[k]

\* both runs have published their results, over two or more items; the
\* failed call was a candidate call, and a rate of its combination differs
\* by exactly 1/n between the runs
C26_Witness ==
    /\ twin # NoTwin
    /\ twin.service = "run_candidate_model"
    /\ Len(dataset) >= 2
    /\ "results" \in DOMAIN TwinFirst.cache
    /\ "results" \in DOMAIN twin.w.cache
    /\ \E i \in DOMAIN TwinFirst.cache["results"], j \in DOMAIN twin.w.cache["results"] :
          LET a == TwinFirst.cache["results"][i]
              b == twin.w.cache["results"][j]
          IN  /\ CombinationOf(a) = twin.combination
              /\ CombinationOf(b) = twin.combination
              /\ OneItemApart(RatesOf(a)[1], RatesOf(b)[1], Len(dataset))
              /\ a.details[twin.item] # b.details[twin.item]

\* an item's record has been built from the review of service_call
ItemBuilt ==
    /\ service_call.op = "item"
    /\ service_result.op \in {"run_evaluation_task", "run_repo_evaluation_task",
                              "evaluate_single_pr"}

\* C28 (review cap): every item record, of the global walk, of the repo walk
\* and of evaluate_single_pr, carries the review: its first 500 characters
\* followed by "..." when it is longer than 500 characters, and the whole
\* review, an error-marked string included, when it is not.
C28_ReviewCapped ==
    ItemBuilt =>
        /\ "review" \in DOMAIN service_result.item
        /\ LET review == service_call.review
               stored == service_result.item.review
           IN  IF Len(review) > 500
               THEN /\ Len(stored) = 503
                    /\ \A k \in 1..500 : stored[k] = review[k]
                    /\ \A k \in 501..503 : stored[k] = "."
               ELSE stored = review

\* the cache of a mode holds a result list
Published(cache) == "results" \in DOMAIN cache

\* a step that changes whether the mode's cache holds a result list, or
\* whether the mode is running, publishes the list and clears the flag together
PublishesAndClears(st, cache, st_after, cache_after) ==
    /\ (~Published(cache) /\ Published(cache_after)) => (st.running /\ ~st_after.running)
    /\ (st.running /\ ~st_after.running) => (~Published(cache) /\ Published(cache_after))

\* C30 (no results while running): in every state a request can observe, a
\* mode whose running flag is true has no result list in its cache; a status
\* poll answered while the mode is running is not "complete" and returns no
\* results; and the step of the walk that publishes the result list is the
\* step that clears the running flag.
C30_NoResultsWhileRunning ==
    [][/\ eval_status.running => ~Published(eval_results_cache)
       /\ eval_status'.running => ~Published(eval_results_cache')
       /\ repo_eval_status.running => ~Published(repo_eval_results_cache)
       /\ repo_eval_status'.running => ~Published(repo_eval_results_cache')
       /\ (get_eval_status /\ eval_status.running)
             => (response'.status = "running" /\ response'.results = <<>>)
       /\ (get_repo_eval_status /\ repo_eval_status.running)
             => (response'.status = "running" /\ response'.results = <<>>)
       /\ PublishesAndClears(eval_status, eval_results_cache,
                             eval_status', eval_results_cache')
       /\ PublishesAndClears(repo_eval_status, repo_eval_results_cache,
                             repo_eval_status', repo_eval_results_cache')]_vars

\* the first global run has published its results, a second run is running,
\* and the status poll has just answered "running" without results
C30_Witness ==
    /\ Len(global_tasks) = 2
    /\ global_tasks[1].pc = "done"
    /\ global_tasks[2].calls # <<>>
    /\ eval_status.running
    /\ response.op = "poll"
    /\ response.status = "running"
    /\ response.results = <<>>

\* C31 (the modes are independent): a start of a mode is rejected exactly
\* when that mode's own running flag is set, and no start and no step of a
\* walk of one mode (its log appends included) changes the other mode's
\* status, log buffer, results cache or walks.
C31_ModesAreIndependent ==
    [][/\ start_global_eval =>
             /\ (response'.status = "conflict") = eval_status.running
             /\ UNCHANGED repo_vars
       /\ start_repo_eval =>
             /\ (response'.status = "conflict") = repo_eval_status.running
             /\ UNCHANGED global_vars
       /\ run_evaluation_task => UNCHANGED repo_vars
       /\ run_repo_evaluation_task => UNCHANGED global_vars]_vars

\* a global run and a repo run are active at the same time, each walk in the
\* middle of its items, and a start of the global mode has just been
\* rejected while the repo walk went on
C31_Witness ==
    /\ eval_status.running
    /\ repo_eval_status.running
    /\ \E i \in DOMAIN global_tasks : Live(global_tasks[i]) /\ global_tasks[i].calls # <<>>
    /\ \E i \in DOMAIN repo_tasks : Live(repo_tasks[i]) /\ repo_tasks[i].calls # <<>>
    /\ repo_eval_status.logs # <<>>
    /\ response.mode = "global"
    /\ response.status = "conflict"

\* the 0-based positions, in model-major order, of the combinations named
\* by current_model and current_prompt
PositionsOf(st) ==
    {(mi - 1) * Len(SYSTEM_PROMPTS) + (pi - 1) :
        mi \in {m \in DOMAIN Models : Models[m] = st.current_model},
        pi \in {q \in DOMAIN SYSTEM_PROMPTS : SYSTEM_PROMPTS[q] = st.current_prompt}}

\* the status of a mode agrees with its running walk t
ProgressNamesCombination(st, t) ==
    /\ st.progress = Len(t.results)
    /\ (st.current_model # "" \/ st.current_prompt # "") => PositionsOf(st) = {st.progress}

\* C32 (progress names the combination): in every state in which a mode is
\* running and its walk is suspended at an await, progress is the number of
\* CombinationResults the walk has appended, and current_model and
\* current_prompt, once set, name the combination at 0-based position
\* progress in model-major order.
C32_ProgressNamesCombination ==
    /\ eval_status.running =>
          \A i \in LiveWalks(global_tasks) :
              ProgressNamesCombination(eval_status, global_tasks[i])
    /\ repo_eval_status.running =>
          \A i \in LiveWalks(repo_tasks) :
              ProgressNamesCombination(repo_eval_status, repo_tasks[i])

\* a running global walk is inside the item loop of its last combination,
\* after an earlier combination ended with the sentinel
C32_Witness ==
    /\ eval_status.running
    /\ \E i \in LiveWalks(global_tasks) :
          /\ global_tasks[i].pc = "at209"
          /\ Len(global_tasks[i].results) = TotalCombinations - 1
          /\ \E k \in DOMAIN global_tasks[i].results :
                IsErrorDetails(global_tasks[i].results[k].details)
    /\ eval_status.progress = TotalCombinations - 1
    /\ eval_status.current_model = Models[Len(Models)]
    /\ eval_status.current_prompt = SYSTEM_PROMPTS[Len(SYSTEM_PROMPTS)]

\* what a status poll answers once a start of the mode has been accepted:
\* "running" while the flag is set, else "complete" with the published list
AnswersRunningOrComplete(st, cache, resp) ==
    IF st.running
    THEN resp.status = "running"
    ELSE /\ resp.status = "complete"
         /\ Published(cache)
         /\ resp.results = cache["results"]
         /\ resp.results # <<>>

\* C33 (no idle after a start): a status poll of a mode answers "idle" only
\* if no start of that mode was ever accepted; after an accepted start every
\* poll answers "running" while the running flag is set and "complete" with
\* the results otherwise.
C33_NeverIdleAfterStart ==
    [][/\ get_eval_status =>
             /\ global_tasks # <<>> =>
                   AnswersRunningOrComplete(eval_status, eval_results_cache, response')
             /\ response'.status = "idle" <=> global_tasks = <<>>
       /\ get_repo_eval_status =>
             /\ repo_tasks # <<>> =>
                   AnswersRunningOrComplete(repo_eval_status, repo_eval_results_cache,
                                            response')
             /\ response'.status = "idle" <=> repo_tasks = <<>>]_vars

\* the repo run has ended and the poll after it has answered "complete"
\* with the ranked list
C33_Witness ==
    /\ repo_tasks # <<>>
    /\ ~repo_eval_status.running
    /\ response.op = "poll"
    /\ response.mode = "repo"
    /\ response.status = "complete"
    /\ Len(response.results) = TotalCombinations

\* C34 (verdict agrees with passed): in every repo-mode CombinationResult
\* the verdict is one of the three, "Recommended" and "Acceptable" come with
\* passed = true, and "Rejected" holds exactly when passed = false.
C34_VerdictAgreesWithPassed ==
    \A r \in RepoCombinationResults :
        /\ r.verdict \in {"Recommended", "Acceptable", "Rejected"}
        /\ r.verdict = "Recommended" => r.passed
        /\ r.verdict = "Acceptable" => r.passed
        /\ r.verdict = "Rejected" <=> ~r.passed

\* the published repo list holds a passed "Recommended" result, a passed
\* "Acceptable" one and a "Rejected" one that did not pass
C34_Witness ==
    /\ RepoComplete
    /\ \E a, b, c \in Range(repo_eval_results_cache["results"]) :
          /\ a.verdict = "Recommended" /\ a.passed
          /\ b.verdict = "Acceptable" /\ b.passed
          /\ c.verdict = "Rejected" /\ ~c.passed

\* two results have the same critical rate and the same hallucination rate
TiedOnRates(a, b) ==
    /\ ~RateLess(a.criticalDetectionRate, b.criticalDetectionRate)
    /\ ~RateLess(b.criticalDetectionRate, a.criticalDetectionRate)
    /\ ~RateLess(a.hallucinationRate, b.hallucinationRate)
    /\ ~RateLess(b.hallucinationRate, a.hallucinationRate)

\* C35 (ties keep the walk order): in the published repo list, of two
\* results that tie on critical rate and on hallucination rate the one whose
\* combination comes first in the model-major walk stands first; no two
\* entries are of the same combination, so the list and the ranks are
\* determined by the rates and the model and prompt lists.
C35_TiesKeepWalkOrder ==
    "results" \in DOMAIN repo_eval_results_cache =>
        LET rs == repo_eval_results_cache["results"]
        IN  \A a, b \in DOMAIN rs : a < b =>
               /\ CombinationOf(rs[a]) # CombinationOf(rs[b])
               /\ rs[a].rank < rs[b].rank
               /\ TiedOnRates(rs[a], rs[b]) => CombinationOf(rs[a]) < CombinationOf(rs[b])

\* the published list starts with the last combination of the walk, and
\* behind it stand three results tied on both rates, in walk order
C35_Witness ==
    /\ RepoComplete
    /\ LET rs == repo_eval_results_cache["results"]
       IN  /\ CombinationOf(rs[1]) = TotalCombinations
           /\ \A k \in 2..Len(rs) : TiedOnRates(rs[k], rs[2])
           /\ ~TiedOnRates(rs[1], rs[2])
           /\ \A k \in 2..Len(rs) : CombinationOf(rs[k]) = k - 1

\* C36 (sub_progress within sub_total): in every state of either mode
\* 0 <= sub_progress <= sub_total, and once a start of the mode has been
\* accepted sub_total is the number of items evaluated per combination: the
\* size of the dataset in global mode, the number of PRs of the request in
\* repo mode.
C36_SubProgressWithinSubTotal ==
    /\ 0 <= eval_status.sub_progress
    /\ eval_status.sub_progress <= eval_status.sub_total
    /\ 0 <= repo_eval_status.sub_progress
    /\ repo_eval_status.sub_progress <= repo_eval_status.sub_total
    /\ global_tasks # <<>> => eval_status.sub_total = Len(dataset)
    /\ repo_tasks # <<>> =>
          /\ repo_eval_status.sub_total = Len(repo_eval_results_cache["prs"])
          /\ \A i \in LiveWalks(repo_tasks) :
                repo_eval_status.sub_total = Len(repo_tasks[i].prs)

\* a repo walk is at the last item of a request whose PR count is not the
\* size of the dataset
C36_Witness ==
    /\ repo_eval_status.running
    /\ repo_eval_status.sub_total >= 1
    /\ repo_eval_status.sub_progress = repo_eval_status.sub_total
    /\ repo_eval_status.sub_total # Len(dataset)
    /\ \E i \in LiveWalks(repo_tasks) : repo_tasks[i].pc = "at549"
====
